---- MODULE Spec2Model ----
(***************************************************************************)
(* Model of the vvproject package of VibeVoice-ComfyUI: the project        *)
(* document (project.json), the chunk audio files, the chunk archive, the  *)
(* timeline computation and the generate / replace operations.             *)
(*                                                                         *)
(* A waveform is modelled by its sample count and an identity tag, the     *)
(* chunk it was made for and its number among the waveforms made for that  *)
(* chunk ([len, tag]); a directory by a function whose DOMAIN is the set of*)
(* files that exist.  An optional value (Python None or a value) is a      *)
(* sequence of length 0 or 1.                                              *)
(***************************************************************************)
EXTENDS Integers, Sequences, FiniteSets, TLC

VARIABLES
    project_json,   \* <<>> when project.json does not exist, else <<document>>
    chunk_files,    \* chunks directory: chunk index (chunk_NNN.flac) -> waveform
    archive_files,  \* chunks_archive directory: <<stem, version>> -> waveform
    pc,             \* position of the running operation ("idle" between calls)
    call,           \* arguments of the running replace_chunk call
    project,        \* in-memory ProjectData of the running operation
    audio,          \* local variable audio of the running operation
    new_duration,   \* local variable new_duration of replace_chunk
    next_start,     \* local variable next_start of generate_project
    gen_todo,       \* enumerate(chunk_specs, start=1) of generate_project still to go
    written,        \* per chunk index: the waveforms written to its file, in order
    replaced,       \* per chunk index: number of replace_chunk calls that returned
    aborted,        \* per chunk index: number of replace_chunk calls that raised midway
    ncalls,         \* number of replace_chunk calls started
    outcome,        \* how the last call ended: "none", "ok" or the exception raised
    renderer_params,    \* <<>>, or <<the parameters render_text of the running call used>>
    renderer_seed,  \* <<>>, or <<the seed render_text of the running call was given>>
    final_mix,      \* <<>> when the final mix file does not exist, else <<its content>>
    nbuilds,        \* number of build_final_mix calls made
    tl_chunks,      \* timeline harness: the chunk list recalculate_timeline works on
    tl_crossfade,   \* timeline harness: settings.crossfade_ms
    tl_history,     \* timeline harness: the chunk list before each recalculation
    ac_chunks,      \* add_chunk harness: project.chunks
    ac_log,         \* add_chunk harness: the chunks added so far, in call order
    rt_project,     \* round-trip harness: the ProjectData in memory
    rt_docs,        \* round-trip harness: the documents saved so far
    ld_payload,     \* load harness: the document in project.json
    ld_result,      \* load harness: <<>> before the call, then <<what load_project gave>>
    fc_chunks,      \* lookup harness: project.chunks
    fc_timestamp,   \* lookup harness: timestamp_ms
    fc_result,      \* lookup harness: <<>> before the call, then <<index found, 0 for None>>
    xf_lens,        \* stitch harness: the sample counts of chunk_audios
    xf_sample_rate, \* stitch harness: sample_rate
    xf_crossfade_ms,    \* stitch harness: crossfade_ms
    xf_samples,     \* stitch harness: crossfade_samples of the pairwise call
    xf_pair,        \* stitch harness: <<>>, then <<sample count cosine_crossfade gave>>
    xf_stitched,    \* stitch harness: <<>>, then <<sample count stitch_chunks gave>>
    xf_offsets,     \* stitch harness: <<>>, then <<where each waveform begins in the result>>
    xf_fade,        \* stitch harness: <<>>, then <<the fade curves of the pairwise call>>
    seg_script,     \* segmentation harness: script_text
    seg_raw         \* segmentation harness: the raw segments the splitter returned

acVars == <<ac_chunks, ac_log>>
rtVars == <<rt_project, rt_docs>>
ldVars == <<ld_payload, ld_result>>
fcVars == <<fc_chunks, fc_timestamp, fc_result>>
xfVars == <<xf_lens, xf_sample_rate, xf_crossfade_ms, xf_samples, xf_pair, xf_stitched,
            xf_offsets, xf_fade>>
segVars == <<seg_script, seg_raw>>

vars == <<project_json, chunk_files, archive_files, pc, call, project, audio,
          new_duration, next_start, gen_todo, written, replaced, aborted, ncalls,
          outcome, renderer_params, renderer_seed, final_mix, nbuilds, tl_chunks, tl_crossfade,
          tl_history, acVars, rtVars, ldVars, fcVars, xfVars, segVars>>

diskVars == <<project_json, chunk_files, archive_files>>
opVars == <<pc, call, project, audio, new_duration, next_start, gen_todo, written, replaced,
            aborted, ncalls, outcome, renderer_params, renderer_seed>>
\* build_final_mix: the file it writes and the number of its calls.
mixVars == <<final_mix, nbuilds>>
tlVars == <<tl_chunks, tl_crossfade, tl_history>>
\* The variables of the harnesses: the project operations leave them alone.
harnessVars == <<tlVars, acVars, rtVars, ldVars, fcVars, xfVars, segVars>>

(***************************************************************************)
(* Bounds of the model.                                                    *)
(***************************************************************************)
MaxChunks == 2          \* chunk_specs of at most this many spans
MaxCalls == 2           \* replace_chunk calls per behaviour
MaxReplacements == 3    \* replace_chunk calls per behaviour of the archive runs
MaxTlChunks == 3        \* chunks in the timeline harness
MaxTlRuns == 2          \* recalculations in the timeline harness
MaxGenChunks == 3       \* chunk_specs of at most this many spans in the generation runs
MaxAdds == 4            \* add_chunk calls in the add_chunk harness
MaxRtChunks == 2        \* chunks of a project in the round-trip harness
MaxFcChunks == 3        \* chunks of a project in the lookup harness
MaxXfChunks == 3        \* waveforms stitched in the stitch harness
MaxScriptLen == 6       \* characters of a script in the segmentation harness
MaxBuilds == 2          \* build_final_mix calls per behaviour of the mix runs
MaxFadeSamples == 4     \* samples of a waveform or a crossfade in the fade harness

(***************************************************************************)
(* Input sets.                                                             *)
(***************************************************************************)
GenerateLens == {0, 24000}          \* sample counts a render of generate_project returns
RenderLens == {0, 1200, 24000}      \* sample counts a render of replace_chunk returns
ImportLens == {0, 1200}             \* sample counts an imported file holds
ArchiveLens == {1200, 24000}        \* sample counts in the archive runs
GenRunLens == {0, 1200, 12000, 24000}   \* sample counts in the generation runs
GenRunCrossfades == {0, 40, 100}    \* settings.crossfade_ms in the generation runs
AcIndexChoices == {1, 2, 3}         \* chunk.index in the add_chunk harness
RtTexts == {"", "hello"}            \* chunk.text in the round-trip harness
RtDurations == {0, 1000}            \* chunk.duration_ms in the round-trip harness
RtCrossfades == {0, 40}             \* settings.crossfade_ms in the round-trip harness
FcStarts == {0, 900, 1500}          \* chunk.t_start_ms in the lookup harness
FcDurations == {0, 1000}            \* chunk.duration_ms in the lookup harness
FcTimestamps == {-1, 0, 500, 1000, 1200, 1500, 5000}    \* timestamp_ms
XfLens == {0, 3, 960, 24000}        \* sample counts of the waveforms stitched
XfSampleRates == {22050, 24000}     \* sample_rate in the stitch harness
XfCrossfades == {0, 25, 40}         \* crossfade_ms in the stitch harness
XfSampleCounts == {0, 5, 960, 30000}    \* crossfade_samples of the pairwise call
CrossfadeChoices == {100}           \* settings.crossfade_ms
TlDurations == {0, 50, 1000}        \* duration_ms in the timeline harness
TlStarts == {0, 900}                \* stale t_start_ms in the timeline harness
TlCrossfades == {0, 40, 100}        \* crossfade_ms in the timeline harness

Max(a, b) == IF a >= b THEN a ELSE b
Min(a, b) == IF a <= b THEN a ELSE b

\* Python round() of the quotient n / d (n >= 0, d > 0): nearest integer, ties
\* to the even one.
PyRound(n, d) ==
    LET q == n \div d
        r == n % d
    IN  IF 2 * r < d THEN q
        ELSE IF 2 * r > d THEN q + 1
        ELSE IF q % 2 = 0 THEN q ELSE q + 1

\* dict.get(key, default)
Get(payload, key, default) == IF key \in DOMAIN payload THEN payload[key] ELSE default

(***************************************************************************)
(* project.py: ordering and timeline.                                      *)
(***************************************************************************)
\* Position of chunks[k] in sorted(chunks, key=index) (the sort is stable).
SortedRank(chunks, k) ==
    Cardinality({j \in DOMAIN chunks :
                    \/ chunks[j].index < chunks[k].index
                    \/ chunks[j].index = chunks[k].index /\ j <= k})

\* sorted(chunks, key=lambda c: c.index)
SortByIndex(chunks) ==
    [r \in 1..Len(chunks) |->
        chunks[CHOOSE k \in DOMAIN chunks : SortedRank(chunks, k) = r]]

\* The t_start_ms values recalculate_timeline assigns to a list of chunks that
\* is already in iteration order: sorted[r] gets TimelineStart(sorted, cf, r).
\* int(round(x)) is the identity on the integers the cursor holds.
RECURSIVE CursorAfter(_, _, _)
TimelineStart(sorted, crossfade_ms, r) ==
    Max(IF r = 1 THEN 0 ELSE CursorAfter(sorted, crossfade_ms, r - 1), 0)

CursorAfter(sorted, crossfade_ms, r) ==
    LET current_start == TimelineStart(sorted, crossfade_ms, r) + sorted[r].duration_ms
                            - crossfade_ms
    IN  IF current_start < 0 THEN 0 ELSE current_start

RECURSIVE StaleCursorAfter(_, _, _)
StaleTimelineStart(sorted, crossfade_ms, r) ==
    Max(IF r = 1 THEN 0 ELSE StaleCursorAfter(sorted, crossfade_ms, r - 1), 0)

StaleCursorAfter(sorted, crossfade_ms, r) ==
    LET current_start == sorted[r].t_start_ms + sorted[r].duration_ms - crossfade_ms
    IN  IF current_start < 0 THEN 0 ELSE current_start

\* recalculate_timeline with the cursor advanced from the chunk's old start.
recalculate_timeline_stale(chunks, crossfade_ms) ==
    LET sorted == SortByIndex(chunks)
    IN  [k \in DOMAIN chunks |->
            [chunks[k] EXCEPT !.t_start_ms =
                StaleTimelineStart(sorted, crossfade_ms, SortedRank(chunks, k))]]

\* recalculate_timeline with the clamps at zero left out.
RECURSIVE UnclampedStart(_, _, _)
UnclampedStart(sorted, crossfade_ms, r) ==
    IF r = 1 THEN 0
    ELSE UnclampedStart(sorted, crossfade_ms, r - 1) + sorted[r - 1].duration_ms
            - crossfade_ms

recalculate_timeline_unclamped(chunks, crossfade_ms) ==
    LET sorted == SortByIndex(chunks)
    IN  [k \in DOMAIN chunks |->
            [chunks[k] EXCEPT !.t_start_ms =
                UnclampedStart(sorted, crossfade_ms, SortedRank(chunks, k))]]

\* recalculate_timeline(project): the chunk list with the new start times.
recalculate_timeline(chunks, crossfade_ms) ==
    LET sorted == SortByIndex(chunks)
    IN  [k \in DOMAIN chunks |->
            [chunks[k] EXCEPT !.t_start_ms =
                TimelineStart(sorted, crossfade_ms, SortedRank(chunks, k))]]

(***************************************************************************)
(* project.py: the data model and the project document.                    *)
(***************************************************************************)
EmptyDict == [k \in {} |-> 0]

ProjectSettings_to_dict(settings) ==
    LET data == [sample_rate |-> settings.sample_rate,
                 loudness_lufs |-> settings.loudness_lufs,
                 model_name |-> settings.model_name,
                 attention_type |-> settings.attention_type,
                 global_seed |-> settings.global_seed,
                 crossfade_ms |-> settings.crossfade_ms,
                 chunks_dir |-> settings.chunks_dir,
                 final_mix |-> settings.final_mix]
    IN  IF DOMAIN settings.default_params # {}
        THEN data @@ [default_params |-> settings.default_params]
        ELSE data

\* from_dict with the factory defaults of the renderer standing in for a
\* missing default_params.
ProjectSettings_from_dict_filled(payload) ==
    [sample_rate |-> Get(payload, "sample_rate", 24000),
     loudness_lufs |-> Get(payload, "loudness_lufs", -16),
     model_name |-> Get(payload, "model_name", "VibeVoice-Large"),
     attention_type |-> Get(payload, "attention_type", "auto"),
     global_seed |-> Get(payload, "global_seed", 42),
     crossfade_ms |-> Get(payload, "crossfade_ms", 40),
     chunks_dir |-> Get(payload, "chunks_dir", "chunks"),
     final_mix |-> Get(payload, "final_mix", "final_mix.flac"),
     default_params |-> Get(payload, "default_params", [cfg_scale |-> 130])]

ProjectSettings_from_dict(payload) ==
    [sample_rate |-> Get(payload, "sample_rate", 24000),
     loudness_lufs |-> Get(payload, "loudness_lufs", -16),
     model_name |-> Get(payload, "model_name", "VibeVoice-Large"),
     attention_type |-> Get(payload, "attention_type", "auto"),
     global_seed |-> Get(payload, "global_seed", 42),
     crossfade_ms |-> Get(payload, "crossfade_ms", 40),
     chunks_dir |-> Get(payload, "chunks_dir", "chunks"),
     final_mix |-> Get(payload, "final_mix", "final_mix.flac"),
     default_params |-> Get(payload, "default_params", EmptyDict)]

ChunkData_to_dict(chunk) ==
    [index |-> chunk.index,
     filename |-> chunk.filename,
     text |-> chunk.text,
     char_start |-> chunk.char_start,
     char_end |-> chunk.char_end,
     t_start_ms |-> chunk.t_start_ms,
     duration_ms |-> chunk.duration_ms,
     seed |-> chunk.seed,
     params |-> chunk.params,
     speaker_id |-> chunk.speaker_id]

\* ChunkData.from_dict raises KeyError: with every key but index required.
ChunkData_from_dict_raises_strict(payload) ==
    \E key \in {"filename", "text", "char_start", "char_end", "t_start_ms", "duration_ms",
                 "seed", "params", "speaker_id"} : key \notin DOMAIN payload

\* ChunkData.from_dict raises KeyError: index and filename are read with
\* payload[...], the other keys with payload.get.
ChunkData_from_dict_raises(payload) ==
    "index" \notin DOMAIN payload \/ "filename" \notin DOMAIN payload

\* ChunkData.from_dict of a payload that has index and filename.
ChunkData_from_dict(payload) ==
    [index |-> payload["index"],
     filename |-> payload["filename"],
     text |-> Get(payload, "text", ""),
     char_start |-> Get(payload, "char_start", 0),
     char_end |-> Get(payload, "char_end", 0),
     t_start_ms |-> Get(payload, "t_start_ms", 0),
     duration_ms |-> Get(payload, "duration_ms", 0),
     seed |-> Get(payload, "seed", 0),
     params |-> Get(payload, "params", EmptyDict),
     speaker_id |-> Get(payload, "speaker_id", 0)]

ProjectData_to_dict(p) ==
    LET sorted == SortByIndex(p.chunks)
    IN  [project |-> ProjectSettings_to_dict(p.settings),
         chunks |-> [r \in 1..Len(sorted) |-> ChunkData_to_dict(sorted[r])]]

\* ProjectData.get_chunk: the position of the first chunk with this index, 0
\* for None.
get_chunk(chunks, index) ==
    IF \E k \in DOMAIN chunks : chunks[k].index = index
    THEN CHOOSE k \in DOMAIN chunks :
            /\ chunks[k].index = index
            /\ \A j \in 1..(k - 1) : chunks[j].index # index
    ELSE 0

\* list.remove of the element at position k
RemoveAt(seq, k) == [j \in 1..(Len(seq) - 1) |-> IF j < k THEN seq[j] ELSE seq[j + 1]]

\* add_chunk without the removal of the chunk that has the index already.
add_chunk_duplicating(chunks, chunk) == SortByIndex(Append(chunks, chunk))

\* ProjectData.add_chunk
add_chunk(chunks, chunk) ==
    LET existing == get_chunk(chunks, chunk.index)
        kept == IF existing # 0 THEN RemoveAt(chunks, existing) ELSE chunks
    IN  SortByIndex(Append(kept, chunk))

\* save_project: the content written to project.json
save_project(p) == <<ProjectData_to_dict(p)>>

\* load_project
load_project(payload) ==
    LET entries == Get(payload, "chunks", <<>>)
    IN  [settings |-> ProjectSettings_from_dict(Get(payload, "project", EmptyDict)),
         chunks |-> SortByIndex([k \in 1..Len(entries) |-> ChunkData_from_dict(entries[k])])]

(***************************************************************************)
(* project.py: find_chunk_by_timestamp.                                    *)
(***************************************************************************)
\* The loop of lines 164-168 from position r of the sorted list on: the
\* position of the first chunk whose interval holds the timestamp, 0 if the
\* loop ends without a return.
RECURSIVE FirstContaining(_, _, _)
FirstContaining(sorted, timestamp_ms, r) ==
    IF r > Len(sorted) THEN 0
    ELSE LET start == sorted[r].t_start_ms
             end == start + sorted[r].duration_ms
         IN  IF start <= timestamp_ms /\ timestamp_ms < end THEN r
             ELSE FirstContaining(sorted, timestamp_ms, r + 1)

\* The same loop with the interval closed at its end.
RECURSIVE FirstContainingClosed(_, _, _)
FirstContainingClosed(sorted, timestamp_ms, r) ==
    IF r > Len(sorted) THEN 0
    ELSE LET start == sorted[r].t_start_ms
             end == start + sorted[r].duration_ms
         IN  IF start <= timestamp_ms /\ timestamp_ms <= end THEN r
             ELSE FirstContainingClosed(sorted, timestamp_ms, r + 1)

find_chunk_by_timestamp_closed(chunks, timestamp_ms) ==
    LET sorted == SortByIndex(chunks)
        hit == FirstContainingClosed(sorted, timestamp_ms, 1)
    IN  IF hit # 0 THEN sorted[hit].index
        ELSE IF chunks # <<>> /\ timestamp_ms >= chunks[Len(chunks)].t_start_ms
             THEN chunks[Len(chunks)].index
        ELSE 0

\* find_chunk_by_timestamp without the fallback to the last chunk.
find_chunk_by_timestamp_no_tail(chunks, timestamp_ms) ==
    LET sorted == SortByIndex(chunks)
        hit == FirstContaining(sorted, timestamp_ms, 1)
    IN  IF hit # 0 THEN sorted[hit].index ELSE 0

\* find_chunk_by_timestamp: the index of the chunk returned, 0 for None.
find_chunk_by_timestamp(chunks, timestamp_ms) ==
    LET sorted == SortByIndex(chunks)
        hit == FirstContaining(sorted, timestamp_ms, 1)
    IN  IF hit # 0 THEN sorted[hit].index
        ELSE IF chunks # <<>> /\ timestamp_ms >= chunks[Len(chunks)].t_start_ms
             THEN chunks[Len(chunks)].index
        ELSE 0

(***************************************************************************)
(* audio.py                                                                *)
(***************************************************************************)
\* calculate_duration_ms for a waveform of len samples
calculate_duration_ms(len, sample_rate) ==
    IF len = 0 THEN 0 ELSE PyRound(len * 1000, sample_rate)

\* Sample counts librosa.effects.time_stretch may return for a stretch aimed
\* at desired samples: the stretch rounds on its own terms.
StretchedLens(desired) == {n \in {desired - 1, desired, desired + 1} : n >= 0}

\* time_stretch_to_duration: the sample count of the result, given the sample
\* count stretched that the stretch itself produced.
time_stretch_to_duration(len, sample_rate, target_duration_ms, stretched) ==
    IF target_duration_ms <= 0 \/ len = 0 THEN len
    ELSE IF calculate_duration_ms(len, sample_rate) = 0 THEN len
    ELSE LET desired_samples == Max(PyRound(target_duration_ms * sample_rate, 1000), 1)
         IN  IF stretched > desired_samples THEN desired_samples
             ELSE IF stretched < desired_samples
                  THEN stretched + (desired_samples - stretched)
             ELSE stretched

\* The stretch is aimed at the target duration.
DesiredSamples(sample_rate, target_duration_ms) ==
    Max(PyRound(target_duration_ms * sample_rate, 1000), 1)

\* cosine_crossfade with the overlap not clamped to the two lengths.
cosine_crossfade_unclamped(first, second, crossfade_samples) ==
    IF crossfade_samples <= 0 \/ first = 0 THEN first + second
    ELSE (first - crossfade_samples) + crossfade_samples + (second - crossfade_samples)

\* cosine_crossfade: the sample count of the result for waveforms of first
\* and second samples (len(prefix) + len(overlap) + len(suffix)).
cosine_crossfade(first, second, crossfade_samples) ==
    IF crossfade_samples <= 0 \/ first = 0 THEN first + second
    ELSE LET clamped == Min(crossfade_samples, Min(first, second))
         IN  IF clamped = 0 THEN first + second
             ELSE (first - clamped) + clamped + (second - clamped)

\* The loop of stitch_chunks: result crossfaded with the chunks from
\* position k on.
RECURSIVE StitchFrom(_, _, _, _)
StitchFrom(result, chunk_list, k, crossfade_samples) ==
    IF k > Len(chunk_list) THEN result
    ELSE StitchFrom(cosine_crossfade(result, chunk_list[k], crossfade_samples),
                    chunk_list, k + 1, crossfade_samples)

\* stitch_chunks: the sample count of the result.
stitch_chunks(chunk_list, sample_rate, crossfade_ms) ==
    IF chunk_list = <<>> THEN 0
    ELSE StitchFrom(chunk_list[1], chunk_list, 2,
                    PyRound(sample_rate * crossfade_ms, 1000))

\* Real numbers in fixed point: FadeScale stands for 1.0, HalfPi for pi / 2.
FadeScale == 10000
HalfPi == 15708

\* The sum of the series whose first term is term, each term being the one
\* before times -x^2 / (d * (d + 1)), d growing by 2; the terms fall to 0.
RECURSIVE TaylorSum(_, _, _, _)
TaylorSum(term, x, d, sign) ==
    IF term = 0 THEN 0
    ELSE sign * term
            + TaylorSum(((((term * x) \div FadeScale) * x) \div FadeScale) \div (d * (d + 1)),
                        x, d + 2, -sign)

\* math cos and sin of x in [0, pi / 2)
Cos(x) == TaylorSum(FadeScale, x, 1, 1)
Sin(x) == TaylorSum(x, x, 2, 1)

\* np.linspace(0, math.pi / 2.0, n, endpoint=False)[i]
Linspace(i, n) == (i * HalfPi) \div n

\* Lines 60-62 with the curves cos and sin, not squared.
fade_curves_amplitude(crossfade_samples) ==
    [fade_out |-> [i \in 1..crossfade_samples |-> Cos(Linspace(i - 1, crossfade_samples))],
     fade_in |-> [i \in 1..crossfade_samples |-> Sin(Linspace(i - 1, crossfade_samples))]]

\* Lines 60-62: fade_out = cos(fade) ** 2 and fade_in = sin(fade) ** 2, the
\* gains of the tail of first and of the head of second in the overlap.
fade_curves(crossfade_samples) ==
    [fade_out |-> [i \in 1..crossfade_samples |->
                    (Cos(Linspace(i - 1, crossfade_samples))
                        * Cos(Linspace(i - 1, crossfade_samples))) \div FadeScale],
     fade_in |-> [i \in 1..crossfade_samples |->
                    (Sin(Linspace(i - 1, crossfade_samples))
                        * Sin(Linspace(i - 1, crossfade_samples))) \div FadeScale]]

\* cosine_crossfade: the fade curves it blends the overlap with, empty when
\* it concatenates.
crossfade_fade(first, second, crossfade_samples) ==
    IF crossfade_samples <= 0 \/ first = 0 THEN fade_curves(0)
    ELSE fade_curves(Min(crossfade_samples, Min(first, second)))

\* The offset, in the result of cosine_crossfade, at which the samples of
\* second begin: behind first when the two are concatenated, at the start of
\* the overlap otherwise.
crossfade_offset(first, second, crossfade_samples) ==
    IF crossfade_samples <= 0 \/ first = 0 THEN first
    ELSE first - Min(crossfade_samples, Min(first, second))

\* The loop of stitch_chunks: where the chunks from position k on begin in
\* the result.
RECURSIVE StitchOffsetsFrom(_, _, _, _, _)
StitchOffsetsFrom(result, chunk_list, k, crossfade_samples, offsets) ==
    IF k > Len(chunk_list) THEN offsets
    ELSE StitchOffsetsFrom(cosine_crossfade(result, chunk_list[k], crossfade_samples),
                           chunk_list, k + 1, crossfade_samples,
                           Append(offsets,
                                  crossfade_offset(result, chunk_list[k], crossfade_samples)))

\* stitch_chunks: the offset in the result at which each chunk begins.
stitch_offsets(chunk_list, sample_rate, crossfade_ms) ==
    IF chunk_list = <<>> THEN <<>>
    ELSE StitchOffsetsFrom(chunk_list[1], chunk_list, 2,
                           PyRound(sample_rate * crossfade_ms, 1000), <<0>>)

(***************************************************************************)
(* engine.py: inputs of the operations.                                    *)
(***************************************************************************)
\* TTSOptions.as_dict; cfg_scale, temperature and top_p are in hundredths.
TTSOptions_as_dict(options) ==
    [cfg_scale |-> options.cfg_scale,
     diffusion_steps |-> options.diffusion_steps,
     use_sampling |-> options.use_sampling,
     temperature |-> options.temperature,
     top_p |-> options.top_p]

\* _default_tts_options: float(), int() and bool() leave the numbers and
\* booleans of a default_params map as they are.
default_tts_options(settings) ==
    LET defaults == settings.default_params
    IN  [cfg_scale |-> Get(defaults, "cfg_scale", 130),
         diffusion_steps |-> Get(defaults, "diffusion_steps", 20),
         use_sampling |-> Get(defaults, "use_sampling", FALSE),
         temperature |-> Get(defaults, "temperature", 95),
         top_p |-> Get(defaults, "top_p", 95)]

\* The tts_options and settings a project is generated with.
GenerateOptions ==
    [cfg_scale |-> 130, diffusion_steps |-> 20, use_sampling |-> FALSE,
     temperature |-> 95, top_p |-> 95]

GenerateSettings(crossfade_ms) ==
    [sample_rate |-> 24000, loudness_lufs |-> -16, model_name |-> "VibeVoice-Large",
     attention_type |-> "auto", global_seed |-> 42, crossfade_ms |-> crossfade_ms,
     chunks_dir |-> "chunks", final_mix |-> "final_mix.flac",
     default_params |-> EmptyDict]

(***************************************************************************)
(* engine.py: _chunk_script.  A string is a sequence of one-character      *)
(* strings; offsets count from 0 as in Python.                             *)
(***************************************************************************)
\* The least and the greatest element of a non-empty set of integers.
Least(S) == CHOOSE x \in S : \A y \in S : x <= y
Greatest(S) == CHOOSE x \in S : \A y \in S : x >= y

\* str.strip() left out.
Strip_none(str) == str

\* str.strip(): leading and trailing whitespace removed.
Strip(str) ==
    LET solid == {i \in DOMAIN str : str[i] # " "}
    IN  IF solid = {} THEN <<>> ELSE SubSeq(str, Least(solid), Greatest(solid))

\* str.find(sub) whatever the start: the lowest offset at which sub occurs.
Find_anywhere(text, sub, start) ==
    LET hits == {i \in 0..(Len(text) - Len(sub)) :
                    SubSeq(text, i + 1, i + Len(sub)) = sub}
    IN  IF hits = {} THEN -1 ELSE Least(hits)

\* str.find(sub, start) for a non-empty sub: the lowest offset >= start at
\* which sub occurs, -1 if there is none.
Find(text, sub, start) ==
    LET hits == {i \in start..(Len(text) - Len(sub)) :
                    SubSeq(text, i + 1, i + Len(sub)) = sub}
    IN  IF hits = {} THEN -1 ELSE Least(hits)

\* The loop of lines 145-157 from raw_chunks[k] on.
RECURSIVE ChunkScriptFrom(_, _, _, _, _)
ChunkScriptFrom(script_text, raw_chunks, k, cursor, positions) ==
    IF k > Len(raw_chunks) THEN positions
    ELSE LET chunk_text == Strip(raw_chunks[k])
         IN  IF chunk_text = <<>>
             THEN ChunkScriptFrom(script_text, raw_chunks, k + 1, cursor, positions)
             ELSE LET after == Find(script_text, chunk_text, cursor)
                      anywhere == Find(script_text, chunk_text, 0)
                      index == IF after # -1 THEN after
                               ELSE IF anywhere # -1 THEN anywhere
                               ELSE cursor
                      start == index
                      end == start + Len(chunk_text)
                  IN  ChunkScriptFrom(script_text, raw_chunks, k + 1, end,
                                      Append(positions,
                                             [text |-> chunk_text, char_start |-> start,
                                              char_end |-> end]))

\* _chunk_script, given the raw segments the splitter returned for the script.
chunk_script(script_text, raw_chunks) == ChunkScriptFrom(script_text, raw_chunks, 1, 0, <<>>)

(***************************************************************************)
(* The splitter (BaseVibeVoiceNode._split_text_into_chunks): the words of  *)
(* the script in order, in groups of at most max_words words.  A segment   *)
(* is the slice of the script that holds its group (verbatim) or the words *)
(* of the group joined by single spaces (retokenized whitespace); empty    *)
(* and whitespace-only segments may come with them.                        *)
(***************************************************************************)
Alphabet == {"a", "b", " "}
SegMaxWords == 3

\* The positions (from 1) at which a word starts, and where that word ends.
WordStarts(script) ==
    {i \in DOMAIN script : script[i] # " " /\ (i = 1 \/ script[i - 1] = " ")}
WordEnd(script, i) ==
    Greatest({j \in i..Len(script) : \A m \in i..j : script[m] # " "})

\* The r-th smallest element of a set of integers.
Nth(S, r) == CHOOSE x \in S : Cardinality({y \in S : y <= x}) = r

\* The words from..to of the script joined by single spaces.
RECURSIVE JoinWords(_, _, _)
JoinWords(script, from, to) ==
    LET starts == WordStarts(script)
        word == SubSeq(script, Nth(starts, to), WordEnd(script, Nth(starts, to)))
    IN  IF from = to THEN word ELSE JoinWords(script, from, to - 1) \o <<" ">> \o word

\* The slice of the script that holds the words from..to and the whitespace
\* up to the next word (from the start of the script for the first word).
SliceWords(script, from, to) ==
    LET starts == WordStarts(script)
    IN  SubSeq(script,
               IF from = 1 THEN 1 ELSE Nth(starts, from),
               IF to = Cardinality(starts) THEN Len(script) ELSE Nth(starts, to + 1) - 1)

\* The ways to group n words: the sets of the words that begin a group.
Groupings(n) ==
    {heads \in SUBSET (1..n) :
        /\ 1 \in heads
        /\ \A h \in heads :
                LET next == {g \in heads : g > h}
                    last == IF next = {} THEN n ELSE Least(next) - 1
                IN  last - h + 1 <= SegMaxWords}

\* The raw segments the splitter may return for a script.
SplitterOutputs(script) ==
    LET n == Cardinality(WordStarts(script))
        GroupEnd(heads, r) ==
            IF r = Cardinality(heads) THEN n ELSE Nth(heads, r + 1) - 1
        Verbatim(heads) ==
            [r \in 1..Cardinality(heads) |->
                SliceWords(script, Nth(heads, r), GroupEnd(heads, r))]
        Joined(heads) ==
            [r \in 1..Cardinality(heads) |->
                JoinWords(script, Nth(heads, r), GroupEnd(heads, r))]
    IN  IF n = 0 THEN {<<>>, <<script>>}
        ELSE UNION {{Verbatim(heads), Joined(heads),
                     <<<<" ">>>> \o Joined(heads) \o <<<<>>>>} : heads \in Groupings(n)}

\* The spans _chunk_script returns for a script of n segments.
ChunkSpecs(n) ==
    [i \in 1..n |-> [text |-> i, char_start |-> 10 * (i - 1), char_end |-> 10 * i - 2]]

\* Arguments of replace_chunk.  overrides: key -> optional value.
SeedChoices == {<<>>, <<7>>}
OverrideChoices == {EmptyDict, [temperature |-> <<50>>, top_p |-> <<>>]}
ImportPaths == {<<>>, <<"missing.wav">>, <<"take.wav">>}
ImportFilesPresent == {"take.wav"}

ReplaceArgs ==
    {a \in [index : 1..(MaxChunks + 1), mode : {"tts", "import", "remix"},
            timeline_mode : {"free", "locked"}, seed : SeedChoices,
            overrides : OverrideChoices, import_path : ImportPaths] :
        /\ a.mode # "import" => a.import_path = <<>>
        /\ a.mode # "tts" => a.overrides = EmptyDict
        /\ a.mode = "remix" => a.seed = <<>> /\ a.timeline_mode = "free"}

NoCall ==
    [index |-> 0, mode |-> "", timeline_mode |-> "", seed |-> <<>>,
     overrides |-> EmptyDict, import_path |-> <<>>]
NoProject == [settings |-> EmptyDict, chunks |-> <<>>]
NoAudio == [len |-> 0, tag |-> <<0, 0>>]

\* dict.update with the overrides that are not None
UpdateParams(params, overrides) ==
    LET given == {k \in DOMAIN overrides : overrides[k] # <<>>}
    IN  [k \in DOMAIN params \cup given |->
            IF k \in given THEN overrides[k][1] ELSE params[k]]

\* ChunkRenderer.render_text, lines 81-90: the parameters the generation runs
\* with, the renderer's options overridden key by key.
render_params(options, overrides) ==
    LET params == TTSOptions_as_dict(options)
    IN  [k \in DOMAIN params |->
            IF k \in DOMAIN overrides /\ overrides[k] # <<>> THEN overrides[k][1]
            ELSE params[k]]

\* Path.stem of a chunk filename; the archive key of version v of that stem.
Stem(filename) == filename
ArchiveVersions(archive, stem) == {key \in DOMAIN archive : key[1] = stem}

\* Unlink leaving the file where it is (a copy in place of a move).
Unlink_kept(dir, name) == dir

\* Removing a file from a directory.
Unlink(dir, name) == [n \in DOMAIN dir \ {name} |-> dir[n]]
\* Writing (creating or overwriting) a file in a directory.
WriteFile(dir, name, data) == [n \in DOMAIN dir \cup {name} |-> IF n = name THEN data ELSE dir[n]]

(***************************************************************************)
(* engine.py: generate_project.                                            *)
(***************************************************************************)
\* Lines 194-204: directories, settings, segmentation.
GenerateBegin(chunk_specs, crossfade_ms) ==
    /\ pc = "idle"
    /\ project_json = <<>>
    /\ LET settings == [GenerateSettings(crossfade_ms) EXCEPT
                            !.default_params = TTSOptions_as_dict(GenerateOptions)]
       IN  IF chunk_specs = <<>>
           THEN /\ outcome' = "ValueError"
                /\ UNCHANGED <<pc, project, gen_todo, next_start>>
           ELSE /\ pc' = "generate"
                /\ project' = [settings |-> settings, chunks |-> <<>>]
                /\ gen_todo' = [i \in 1..Len(chunk_specs) |->
                                    [idx |-> i, text |-> chunk_specs[i].text,
                                     char_start |-> chunk_specs[i].char_start,
                                     char_end |-> chunk_specs[i].char_end]]
                /\ next_start' = 0
                /\ outcome' = "none"
    /\ UNCHANGED <<diskVars, call, audio, new_duration, written, replaced, aborted, ncalls, renderer_params, renderer_seed, harnessVars, mixVars>>

\* The cursor moved without the clamp at 0.
next_start_after_unclamped(chunk, crossfade_ms) ==
    chunk.t_start_ms + chunk.duration_ms - crossfade_ms

\* Lines 227-229: the cursor after a chunk, clamped at 0.
next_start_after(chunk, crossfade_ms) ==
    LET cursor == chunk.t_start_ms + chunk.duration_ms - crossfade_ms
    IN  IF cursor < 0 THEN 0 ELSE cursor

\* The loop iteration with the document saved only after the last chunk.
GenerateChunk_saved_at_end(len) ==
    /\ pc = "generate"
    /\ gen_todo # <<>>
    /\ LET settings == project.settings
           spec == Head(gen_todo)
           idx == spec.idx
           seed == settings.global_seed + idx - 1
           rendered == [len |-> len, tag |-> <<idx, 1>>]
           duration_ms == calculate_duration_ms(rendered.len, settings.sample_rate)
           filename == idx
           chunk == [index |-> idx, filename |-> filename, text |-> spec.text,
                     char_start |-> spec.char_start, char_end |-> spec.char_end,
                     t_start_ms |-> next_start, duration_ms |-> duration_ms,
                     seed |-> seed, params |-> TTSOptions_as_dict(GenerateOptions),
                     speaker_id |-> 0]
           chunks == add_chunk(project.chunks, chunk)
           last == Len(gen_todo) = 1
       IN  /\ chunk_files' = WriteFile(chunk_files, filename, rendered)
           /\ written' = [written EXCEPT ![idx] = Append(@, rendered)]
           /\ project' = IF last THEN NoProject ELSE [project EXCEPT !.chunks = chunks]
           /\ next_start' = IF last THEN 0 ELSE next_start_after(chunk, settings.crossfade_ms)
           /\ project_json' = IF last THEN save_project([project EXCEPT !.chunks = chunks])
                              ELSE project_json
           /\ gen_todo' = Tail(gen_todo)
           /\ pc' = IF last THEN "idle" ELSE "generate"
           /\ outcome' = IF last THEN "ok" ELSE "none"
    /\ UNCHANGED <<archive_files, call, audio, new_duration, replaced, aborted, ncalls, renderer_params, renderer_seed, harnessVars, mixVars>>

\* Lines 207-230: one iteration of the loop, the renderer returning len samples.
GenerateChunk(len) ==
    /\ pc = "generate"
    /\ gen_todo # <<>>
    /\ LET settings == project.settings
           spec == Head(gen_todo)
           idx == spec.idx
           seed == settings.global_seed + idx - 1
           rendered == [len |-> len, tag |-> <<idx, 1>>]
           duration_ms == calculate_duration_ms(rendered.len, settings.sample_rate)
           filename == idx
           chunk == [index |-> idx, filename |-> filename, text |-> spec.text,
                     char_start |-> spec.char_start, char_end |-> spec.char_end,
                     t_start_ms |-> next_start, duration_ms |-> duration_ms,
                     seed |-> seed, params |-> TTSOptions_as_dict(GenerateOptions),
                     speaker_id |-> 0]
           chunks == add_chunk(project.chunks, chunk)
           last == Len(gen_todo) = 1
       IN  /\ chunk_files' = WriteFile(chunk_files, filename, rendered)
           /\ written' = [written EXCEPT ![idx] = Append(@, rendered)]
           /\ project' = IF last THEN NoProject ELSE [project EXCEPT !.chunks = chunks]
           /\ next_start' = IF last THEN 0 ELSE next_start_after(chunk, settings.crossfade_ms)
           /\ project_json' = save_project([project EXCEPT !.chunks = chunks])
           /\ gen_todo' = Tail(gen_todo)
           /\ pc' = IF last THEN "idle" ELSE "generate"
           /\ outcome' = IF last THEN "ok" ELSE "none"
    /\ UNCHANGED <<archive_files, call, audio, new_duration, replaced, aborted, ncalls, renderer_params, renderer_seed, harnessVars, mixVars>>

\* Line 209: the renderer raises.
GenerateRenderRaises ==
    /\ pc = "generate"
    /\ gen_todo # <<>>
    /\ pc' = "idle"
    /\ outcome' = "RenderError"
    /\ project' = NoProject
    /\ gen_todo' = <<>>
    /\ next_start' = 0
    /\ UNCHANGED <<diskVars, call, audio, new_duration, written, replaced, aborted, ncalls, renderer_params, renderer_seed, harnessVars, mixVars>>

(***************************************************************************)
(* engine.py: replace_chunk, one action per step of the function.          *)
(***************************************************************************)
\* The chunk replace_chunk works on: its position in project.chunks.
ChunkPos == get_chunk(project.chunks, call.index)
\* The waveform a render or an import of this call returns has this tag.
CallTag == <<call.index, Len(written[call.index]) + 1>>

\* Lines 245-248 returning without an error when the chunk is not there.
ReplaceLoad_silent(args, limit) ==
    /\ pc = "idle"
    /\ project_json # <<>>
    /\ ncalls < limit
    /\ ncalls' = ncalls + 1
    /\ LET loaded == load_project(project_json[1])
       IN  IF get_chunk(loaded.chunks, args.index) = 0
           THEN /\ outcome' = "ok"
                /\ UNCHANGED <<pc, project, call>>
           ELSE /\ pc' = "archive"
                /\ project' = loaded
                /\ call' = args
                /\ outcome' = "none"
    /\ UNCHANGED <<diskVars, audio, new_duration, next_start, gen_todo, written, replaced, aborted,
                   renderer_params, renderer_seed, harnessVars, mixVars>>

\* Lines 245-248: load the document and look the chunk up.
ReplaceLoad(args, limit) ==
    /\ pc = "idle"
    /\ project_json # <<>>
    /\ ncalls < limit
    /\ ncalls' = ncalls + 1
    /\ LET loaded == load_project(project_json[1])
       IN  IF get_chunk(loaded.chunks, args.index) = 0
           THEN /\ outcome' = "ValueError"
                /\ UNCHANGED <<pc, project, call>>
           ELSE /\ pc' = "archive"
                /\ project' = loaded
                /\ call' = args
                /\ outcome' = "none"
    /\ UNCHANGED <<diskVars, audio, new_duration, next_start, gen_todo, written, replaced, aborted, renderer_params, renderer_seed, harnessVars, mixVars>>

\* _archive_chunk with the version number taken as the count of the existing
\* versions, without the + 1.
archive_chunk_recount(files, archive, filename) ==
    IF filename \notin DOMAIN files
    THEN [files |-> files, archive |-> archive]
    ELSE LET stem == Stem(filename)
             version == Max(Cardinality(ArchiveVersions(archive, stem)), 1)
         IN  [files |-> Unlink(files, filename),
              archive |-> WriteFile(archive, <<stem, version>>, files[filename])]

\* _archive_chunk copying the file in place of moving it.
archive_chunk_copied(files, archive, filename) ==
    IF filename \notin DOMAIN files
    THEN [files |-> files, archive |-> archive]
    ELSE LET stem == Stem(filename)
             version == Cardinality(ArchiveVersions(archive, stem)) + 1
         IN  [files |-> files,
              archive |-> WriteFile(archive, <<stem, version>>, files[filename])]

\* _archive_chunk: the chunk directory and the archive directory afterwards.
archive_chunk(files, archive, filename) ==
    IF filename \notin DOMAIN files
    THEN [files |-> files, archive |-> archive]
    ELSE LET stem == Stem(filename)
             version == Cardinality(ArchiveVersions(archive, stem)) + 1
         IN  [files |-> Unlink(files, filename),
              archive |-> WriteFile(archive, <<stem, version>>, files[filename])]

\* Line 250.
ReplaceArchive ==
    /\ pc = "archive"
    /\ LET moved == archive_chunk(chunk_files, archive_files,
                                  project.chunks[ChunkPos].filename)
       IN  /\ chunk_files' = moved.files
           /\ archive_files' = moved.archive
    /\ pc' = "render"
    /\ UNCHANGED <<project_json, call, project, audio, new_duration, next_start, gen_todo, written,
                   replaced, aborted, ncalls, outcome, renderer_params, renderer_seed, harnessVars, mixVars>>

\* The call raises: the locals are dropped, the disk stays as it is.
Raise(exception) ==
    /\ pc' = "idle"
    /\ outcome' = exception
    /\ aborted' = [aborted EXCEPT ![call.index] = @ + 1]
    /\ call' = NoCall
    /\ project' = NoProject
    /\ audio' = NoAudio
    /\ new_duration' = 0
    /\ renderer_params' = <<>>
    /\ renderer_seed' = <<>>
    /\ UNCHANGED <<diskVars, next_start, gen_todo, written, replaced, ncalls, harnessVars,
                   mixVars>>

\* The tts render with the seed it used not stored in the chunk.
ReplaceRenderTts_unstored(len) ==
    /\ pc = "render"
    /\ call.mode = "tts"
    /\ LET defaults == default_tts_options(project.settings)
           chunk == project.chunks[ChunkPos]
           chunk_seed == IF call.seed # <<>> THEN call.seed[1] ELSE chunk.seed
           params == IF DOMAIN call.overrides # {}
                     THEN UpdateParams(TTSOptions_as_dict(defaults), call.overrides)
                     ELSE TTSOptions_as_dict(defaults)
       IN  /\ audio' = [len |-> len, tag |-> CallTag]
           /\ renderer_params' = <<render_params(defaults, call.overrides)>>
           /\ renderer_seed' = <<chunk_seed>>
           /\ project' = [project EXCEPT !.chunks[ChunkPos].seed = chunk.seed,
                                         !.chunks[ChunkPos].params = params]
    /\ pc' = "reconcile"
    /\ UNCHANGED <<diskVars, call, new_duration, next_start, gen_todo, written, replaced, aborted,
                   ncalls, outcome, harnessVars, mixVars>>

\* Lines 257-265: mode tts, the renderer returning len samples.
ReplaceRenderTts(len) ==
    /\ pc = "render"
    /\ call.mode = "tts"
    /\ LET defaults == default_tts_options(project.settings)
           chunk == project.chunks[ChunkPos]
           chunk_seed == IF call.seed # <<>> THEN call.seed[1] ELSE chunk.seed
           params == IF DOMAIN call.overrides # {}
                     THEN UpdateParams(TTSOptions_as_dict(defaults), call.overrides)
                     ELSE TTSOptions_as_dict(defaults)
       IN  /\ audio' = [len |-> len, tag |-> CallTag]
           /\ renderer_params' = <<render_params(defaults, call.overrides)>>
           /\ renderer_seed' = <<chunk_seed>>
           /\ project' = [project EXCEPT !.chunks[ChunkPos].seed = chunk_seed,
                                         !.chunks[ChunkPos].params = params]
    /\ pc' = "reconcile"
    /\ UNCHANGED <<diskVars, call, new_duration, next_start, gen_todo, written, replaced, aborted,
                   ncalls, outcome, harnessVars, mixVars>>

\* Line 260: the renderer raises.
ReplaceRenderRaises ==
    /\ pc = "render"
    /\ call.mode = "tts"
    /\ Raise("RenderError")

\* Lines 266-274: mode import, the file holding len samples.
ReplaceImport(len) ==
    /\ pc = "render"
    /\ call.mode = "import"
    /\ call.import_path # <<>>
    /\ call.import_path[1] \in ImportFilesPresent
    /\ LET chunk == project.chunks[ChunkPos]
           params == [k \in DOMAIN chunk.params \cup {"mode"} |->
                        IF k = "mode" THEN "import" ELSE chunk.params[k]]
       IN  /\ audio' = [len |-> len, tag |-> CallTag]
           /\ project' = [project EXCEPT
                            !.chunks[ChunkPos].seed =
                                IF call.seed # <<>> THEN call.seed[1] ELSE @,
                            !.chunks[ChunkPos].params = params]
    /\ pc' = "reconcile"
    /\ UNCHANGED <<diskVars, call, new_duration, next_start, gen_todo, written, replaced, aborted,
                   ncalls, outcome, renderer_params, renderer_seed, harnessVars, mixVars>>

\* Lines 267-269 and 275-276: no import path, an import file that cannot be
\* read, or a mode that is neither tts nor import.
ReplaceRejected ==
    /\ pc = "render"
    /\ \/ /\ call.mode = "import"
          /\ call.import_path = <<>>
          /\ Raise("ValueError")
       \/ /\ call.mode = "import"
          /\ call.import_path # <<>>
          /\ call.import_path[1] \notin ImportFilesPresent
          /\ Raise("AudioReadError")
       \/ /\ call.mode \notin {"tts", "import"}
          /\ Raise("ValueError")

\* Lines 278-285 with the new duration stored whatever the mode.
reconcile_duration_always_new(timeline_mode, original_duration, rendered_duration) ==
    rendered_duration

\* Lines 278-285: the duration_ms stored in the chunk.
reconcile_duration(timeline_mode, original_duration, rendered_duration) ==
    IF timeline_mode = "locked" /\ original_duration > 0
    THEN original_duration
    ELSE rendered_duration

\* Lines 278-285, the stretch itself producing stretched samples.
ReplaceReconcile ==
    /\ pc = "reconcile"
    /\ LET sample_rate == project.settings.sample_rate
           original_duration == project.chunks[ChunkPos].duration_ms
           duration == calculate_duration_ms(audio.len, sample_rate)
       IN  \E stretched \in StretchedLens(DesiredSamples(sample_rate, original_duration)) :
           /\ audio' = IF call.timeline_mode = "locked" /\ original_duration > 0
                       THEN [audio EXCEPT !.len =
                                time_stretch_to_duration(audio.len, sample_rate,
                                                         original_duration, stretched)]
                       ELSE audio
           /\ project' = [project EXCEPT !.chunks[ChunkPos].duration_ms =
                            reconcile_duration(call.timeline_mode, original_duration,
                                               duration)]
           /\ new_duration' = duration
    /\ pc' = "write"
    /\ UNCHANGED <<diskVars, call, next_start, gen_todo, written, replaced, aborted,
                   ncalls, outcome, renderer_params, renderer_seed, harnessVars, mixVars>>

\* Line 287.
ReplaceWrite ==
    /\ pc = "write"
    /\ LET target == project.chunks[ChunkPos].filename
       IN  /\ chunk_files' = WriteFile(chunk_files, target, audio)
           /\ written' = [written EXCEPT ![call.index] = Append(@, audio)]
    /\ pc' = "recalculate"
    /\ UNCHANGED <<project_json, archive_files, call, project, audio, new_duration,
                   next_start, gen_todo, replaced, aborted, ncalls, outcome, renderer_params, renderer_seed, harnessVars, mixVars>>

\* Lines 289-290 with the recalculation never run.
timeline_after_replace_never(timeline_mode, chunks, crossfade_ms) ==
    chunks

\* Lines 289-290: the chunk list after the conditional recalculation.
timeline_after_replace(timeline_mode, chunks, crossfade_ms) ==
    IF timeline_mode = "free"
    THEN recalculate_timeline(chunks, crossfade_ms)
    ELSE chunks

\* Lines 289-290 with the document saved before the recalculation as well.
ReplaceRecalculate_saving ==
    /\ pc = "recalculate"
    /\ project_json' = save_project(project)
    /\ project' = [project EXCEPT !.chunks =
                     timeline_after_replace(call.timeline_mode, project.chunks,
                                            project.settings.crossfade_ms)]
    /\ pc' = "save"
    /\ UNCHANGED <<chunk_files, archive_files, call, audio, new_duration, next_start, gen_todo,
                   written, replaced, aborted, ncalls, outcome, renderer_params, renderer_seed, harnessVars,
                   mixVars>>

\* Lines 289-290.
ReplaceRecalculate ==
    /\ pc = "recalculate"
    /\ project' = [project EXCEPT !.chunks =
                     timeline_after_replace(call.timeline_mode, project.chunks,
                                            project.settings.crossfade_ms)]
    /\ pc' = "save"
    /\ UNCHANGED <<diskVars, call, audio, new_duration, next_start, gen_todo, written, replaced,
                   aborted, ncalls, outcome, renderer_params, renderer_seed, harnessVars, mixVars>>

\* Lines 292-293.
ReplaceSave ==
    /\ pc = "save"
    /\ project_json' = save_project(project)
    /\ replaced' = [replaced EXCEPT ![call.index] = @ + 1]
    /\ pc' = "idle"
    /\ outcome' = "ok"
    /\ call' = NoCall
    /\ project' = NoProject
    /\ audio' = NoAudio
    /\ new_duration' = 0
    /\ renderer_params' = <<>>
    /\ renderer_seed' = <<>>
    /\ UNCHANGED <<chunk_files, archive_files, next_start, gen_todo, written, aborted,
                   ncalls, harnessVars, mixVars>>

(***************************************************************************)
(* engine.py: build_final_mix.  The final mix is modelled by its sample    *)
(* count and the waveforms it was stitched from, in order.                 *)
(***************************************************************************)
\* The audio of the chunks up to the first one whose file is missing.
LoadedBeforeMissing(chunks, files) ==
    LET missing == {k \in DOMAIN chunks : chunks[k].filename \notin DOMAIN files}
        found == IF missing = {} THEN Len(chunks) ELSE Least(missing) - 1
    IN  [k \in 1..found |-> files[chunks[k].filename]]

\* Lines 305-307: stitch, normalise, write.  match_loudness scales the
\* samples and keeps their number.
MixOf(chunk_audios, settings) ==
    <<[len |-> stitch_chunks([k \in DOMAIN chunk_audios |-> chunk_audios[k].len],
                             settings.sample_rate, settings.crossfade_ms),
       parts |-> [k \in DOMAIN chunk_audios |-> chunk_audios[k].tag]]>>

\* build_final_mix writing the mix of the chunks it found when one is missing.
BuildFinalMix_partial ==
    /\ pc = "idle"
    /\ nbuilds < MaxBuilds
    /\ nbuilds' = nbuilds + 1
    /\ IF project_json = <<>>
       THEN outcome' = "FileNotFoundError" /\ final_mix' = final_mix
       ELSE LET loaded == load_project(project_json[1])
                chunk_audios == LoadedBeforeMissing(loaded.chunks, chunk_files)
            IN  /\ outcome' = IF Len(chunk_audios) < Len(loaded.chunks)
                              THEN "FileNotFoundError" ELSE "ok"
                /\ final_mix' = MixOf(chunk_audios, loaded.settings)
    /\ UNCHANGED <<diskVars, pc, call, project, audio, new_duration, next_start, gen_todo,
                   written, replaced, aborted, ncalls, renderer_params, renderer_seed, harnessVars>>

\* build_final_mix(project_path)
BuildFinalMix ==
    /\ pc = "idle"
    /\ nbuilds < MaxBuilds
    /\ nbuilds' = nbuilds + 1
    /\ IF project_json = <<>>
       THEN outcome' = "FileNotFoundError" /\ final_mix' = final_mix
       ELSE LET loaded == load_project(project_json[1])
                chunk_audios == LoadedBeforeMissing(loaded.chunks, chunk_files)
            IN  IF Len(chunk_audios) < Len(loaded.chunks)
                THEN outcome' = "FileNotFoundError" /\ final_mix' = final_mix
                ELSE outcome' = "ok" /\ final_mix' = MixOf(chunk_audios, loaded.settings)
    /\ UNCHANGED <<diskVars, pc, call, project, audio, new_duration, next_start, gen_todo,
                   written, replaced, aborted, ncalls, renderer_params, renderer_seed, harnessVars>>

(***************************************************************************)
(* The project state machine.                                              *)
(***************************************************************************)
Indices == 1..Max(MaxChunks, MaxGenChunks)

\* The project directory before generate_project: no operation running.
ProgramIdle ==
    /\ project_json = <<>>
    /\ chunk_files = EmptyDict
    /\ archive_files = EmptyDict
    /\ pc = "idle"
    /\ call = NoCall
    /\ project = NoProject
    /\ audio = NoAudio
    /\ new_duration = 0
    /\ next_start = 0
    /\ gen_todo = <<>>
    /\ written = [i \in Indices |-> <<>>]
    /\ replaced = [i \in Indices |-> 0]
    /\ aborted = [i \in Indices |-> 0]
    /\ ncalls = 0
    /\ outcome = "none"
    /\ renderer_params = <<>>
    /\ renderer_seed = <<>>

\* No final mix has been built.
MixIdle == final_mix = <<>> /\ nbuilds = 0

\* The harnesses at rest.
TlIdle == tl_chunks = <<>> /\ tl_crossfade = 0 /\ tl_history = <<>>
AcIdle == ac_chunks = <<>> /\ ac_log = <<>>
RtIdle == rt_project = NoProject /\ rt_docs = <<>>
LdIdle == ld_payload = EmptyDict /\ ld_result = <<>>
FcIdle == fc_chunks = <<>> /\ fc_timestamp = 0 /\ fc_result = <<>>
XfIdle ==
    /\ xf_lens = <<>>
    /\ xf_sample_rate = 0
    /\ xf_crossfade_ms = 0
    /\ xf_samples = 0
    /\ xf_pair = <<>>
    /\ xf_stitched = <<>>
    /\ xf_offsets = <<>>
    /\ xf_fade = <<>>
SegIdle == seg_script = <<>> /\ seg_raw = <<>>

Init == ProgramIdle /\ MixIdle /\ TlIdle /\ AcIdle /\ RtIdle /\ LdIdle /\ FcIdle /\ XfIdle /\ SegIdle

\* Calls without seed or parameter overrides.
PlainArgs == {a \in ReplaceArgs : a.seed = <<>> /\ a.overrides = EmptyDict}

Next ==
    \/ \E n \in 0..MaxChunks, crossfade_ms \in CrossfadeChoices :
            GenerateBegin(ChunkSpecs(n), crossfade_ms)
    \/ \E len \in GenerateLens : GenerateChunk(len)
    \/ GenerateRenderRaises
    \/ \E args \in PlainArgs : ReplaceLoad(args, MaxCalls)
    \/ ReplaceArchive
    \/ \E len \in RenderLens : ReplaceRenderTts(len)
    \/ ReplaceRenderRaises
    \/ \E len \in ImportLens : ReplaceImport(len)
    \/ ReplaceRejected
    \/ ReplaceReconcile
    \/ ReplaceWrite
    \/ ReplaceRecalculate
    \/ ReplaceSave

Spec == Init /\ [][Next]_vars

(***************************************************************************)
(* The archive runs: the first chunk replaced again and again.             *)
(***************************************************************************)
FirstChunkArgs == {a \in PlainArgs : a.index = 1}

NextArchive ==
    \/ \E n \in 0..MaxChunks, crossfade_ms \in CrossfadeChoices :
            GenerateBegin(ChunkSpecs(n), crossfade_ms)
    \/ \E len \in ArchiveLens : GenerateChunk(len)
    \/ GenerateRenderRaises
    \/ \E args \in FirstChunkArgs : ReplaceLoad(args, MaxReplacements)
    \/ ReplaceArchive
    \/ \E len \in ArchiveLens : ReplaceRenderTts(len)
    \/ ReplaceRenderRaises
    \/ \E len \in ArchiveLens : ReplaceImport(len)
    \/ ReplaceRejected
    \/ ReplaceReconcile
    \/ ReplaceWrite
    \/ ReplaceRecalculate
    \/ ReplaceSave

SpecArchive == Init /\ [][NextArchive]_vars

(***************************************************************************)
(* The archive runs with another process at work in the archive directory  *)
(* between the calls: it deletes archived versions of the first chunk and  *)
(* puts files there that have the name of a version.                       *)
(***************************************************************************)
\* An archived version is deleted from outside.
ExternalDelete(key) ==
    /\ pc = "idle"
    /\ project_json # <<>>
    /\ key \in DOMAIN archive_files
    /\ archive_files' = Unlink(archive_files, key)
    /\ UNCHANGED <<project_json, chunk_files, opVars, harnessVars, mixVars>>

\* A file matching the glob of line 179 is put into the archive from outside.
ExternalAdd(key) ==
    /\ pc = "idle"
    /\ project_json # <<>>
    /\ key \notin DOMAIN archive_files
    /\ archive_files' = WriteFile(archive_files, key, NoAudio)
    /\ UNCHANGED <<project_json, chunk_files, opVars, harnessVars, mixVars>>

NextExternal ==
    \/ NextArchive
    \/ \E version \in 1..MaxReplacements : ExternalDelete(<<Stem(1), version>>)
    \/ \E version \in 1..MaxReplacements : ExternalAdd(<<Stem(1), version>>)

SpecExternal == Init /\ [][NextExternal]_vars

(***************************************************************************)
(* The call runs: replace_chunk with every kind of argument but a seed.    *)
(***************************************************************************)
CallArgs == {a \in ReplaceArgs : a.seed = <<>>}

NextCalls ==
    \/ \E n \in 0..MaxChunks, crossfade_ms \in CrossfadeChoices :
            GenerateBegin(ChunkSpecs(n), crossfade_ms)
    \/ \E len \in ArchiveLens : GenerateChunk(len)
    \/ \E args \in CallArgs : ReplaceLoad(args, MaxCalls)
    \/ ReplaceArchive
    \/ \E len \in ArchiveLens : ReplaceRenderTts(len)
    \/ ReplaceRenderRaises
    \/ \E len \in ArchiveLens : ReplaceImport(len)
    \/ ReplaceRejected
    \/ ReplaceReconcile
    \/ ReplaceWrite
    \/ ReplaceRecalculate
    \/ ReplaceSave

SpecCalls == Init /\ [][NextCalls]_vars

(***************************************************************************)
(* The seed runs: tts and import replacements with and without a seed, no  *)
(* parameter overrides.                                                    *)
(***************************************************************************)
SeedLens == {24000}     \* sample counts in the seed runs
SeedArgs ==
    {a \in ReplaceArgs : /\ a.overrides = EmptyDict
                         /\ a.mode # "remix"
                         /\ a.timeline_mode = "free"
                         /\ a.import_path # <<"missing.wav">>}

NextSeeds ==
    \/ \E n \in 0..MaxChunks, crossfade_ms \in CrossfadeChoices :
            GenerateBegin(ChunkSpecs(n), crossfade_ms)
    \/ \E len \in SeedLens : GenerateChunk(len)
    \/ \E args \in SeedArgs : ReplaceLoad(args, MaxCalls)
    \/ ReplaceArchive
    \/ \E len \in SeedLens : ReplaceRenderTts(len)
    \/ ReplaceRenderRaises
    \/ \E len \in SeedLens : ReplaceImport(len)
    \/ ReplaceRejected
    \/ ReplaceReconcile
    \/ ReplaceWrite
    \/ ReplaceRecalculate
    \/ ReplaceSave

SpecSeeds == Init /\ [][NextSeeds]_vars

(***************************************************************************)
(* The mix runs: build_final_mix between free tts replacements, some of    *)
(* which fail in the renderer.                                             *)
(***************************************************************************)
MixArgs == {a \in PlainArgs : a.mode = "tts" /\ a.timeline_mode = "free"}

NextMix ==
    \/ \E n \in 0..MaxChunks, crossfade_ms \in CrossfadeChoices :
            GenerateBegin(ChunkSpecs(n), crossfade_ms)
    \/ \E len \in ArchiveLens : GenerateChunk(len)
    \/ \E args \in MixArgs : ReplaceLoad(args, MaxCalls)
    \/ ReplaceArchive
    \/ \E len \in ArchiveLens : ReplaceRenderTts(len)
    \/ ReplaceRenderRaises
    \/ ReplaceReconcile
    \/ ReplaceWrite
    \/ ReplaceRecalculate
    \/ ReplaceSave
    \/ BuildFinalMix

SpecMix == Init /\ [][NextMix]_vars

(***************************************************************************)
(* The generation runs: generate_project alone, on longer scripts.         *)
(***************************************************************************)
NextGenerate ==
    \/ \E n \in 0..MaxGenChunks, crossfade_ms \in GenRunCrossfades :
            GenerateBegin(ChunkSpecs(n), crossfade_ms)
    \/ \E len \in GenRunLens : GenerateChunk(len)
    \/ GenerateRenderRaises

SpecGenerate == Init /\ [][NextGenerate]_vars

(***************************************************************************)
(* The timeline harness: recalculate_timeline applied to arbitrary chunk   *)
(* lists with arbitrary stale start times.                                 *)
(***************************************************************************)
TlChunkLists ==
    UNION {[1..n -> [t_start_ms : TlStarts, duration_ms : TlDurations]] :
            n \in 0..MaxTlChunks}

TlInit ==
    /\ tl_crossfade \in TlCrossfades
    /\ \E list \in TlChunkLists :
            tl_chunks = [k \in DOMAIN list |->
                            [index |-> k, t_start_ms |-> list[k].t_start_ms,
                             duration_ms |-> list[k].duration_ms]]
    /\ tl_history = <<>>
    /\ ProgramIdle /\ MixIdle /\ AcIdle /\ RtIdle /\ LdIdle /\ FcIdle /\ XfIdle /\ SegIdle

\* recalculate_timeline(project) on the harness's chunk list.
TlRecalculate ==
    /\ Len(tl_history) < MaxTlRuns
    /\ tl_history' = Append(tl_history, tl_chunks)
    /\ tl_chunks' = recalculate_timeline(tl_chunks, tl_crossfade)
    /\ UNCHANGED <<tl_crossfade, diskVars, opVars, mixVars, acVars, rtVars, ldVars, fcVars, xfVars,
                   segVars>>

TlNext == TlRecalculate

SpecTimeline == TlInit /\ [][TlNext]_vars

(***************************************************************************)
(* The add_chunk harness: chunks added to an empty project in any order of *)
(* indices.  The text of a chunk is its number in the order of the calls.  *)
(***************************************************************************)
AcInit ==
    /\ ac_chunks = <<>>
    /\ ac_log = <<>>
    /\ ProgramIdle /\ MixIdle /\ TlIdle /\ RtIdle /\ LdIdle /\ FcIdle /\ XfIdle /\ SegIdle

\* project.add_chunk(chunk)
AcAddChunk(index) ==
    /\ Len(ac_log) < MaxAdds
    /\ LET chunk == [index |-> index, filename |-> index, text |-> Len(ac_log) + 1,
                     char_start |-> 0, char_end |-> 0, t_start_ms |-> 0,
                     duration_ms |-> 0, seed |-> 0, params |-> EmptyDict,
                     speaker_id |-> 0]
       IN  /\ ac_chunks' = add_chunk(ac_chunks, chunk)
           /\ ac_log' = Append(ac_log, chunk)
    /\ UNCHANGED <<diskVars, opVars, mixVars, tlVars, rtVars, ldVars, fcVars, xfVars, segVars>>

AcNext == \E index \in AcIndexChoices : AcAddChunk(index)

SpecAddChunk == AcInit /\ [][AcNext]_vars

(***************************************************************************)
(* The round-trip harness: a well-formed ProjectData is saved, the saved   *)
(* document is loaded and the loaded project is saved again.  The chunk    *)
(* list in memory may be in any order of its (distinct) indices.           *)
(***************************************************************************)
RtParams == {EmptyDict, [mode |-> "import", temperature |-> 50]}
RtDefaultParams == {EmptyDict, TTSOptions_as_dict(GenerateOptions)}

\* Sequences of distinct chunk indices.
RtIndexLists ==
    UNION {{list \in [1..n -> 1..MaxRtChunks] :
                \A j, k \in 1..n : list[j] = list[k] => j = k} : n \in 0..MaxRtChunks}

RtProjects ==
    UNION {{[settings |-> [GenerateSettings(crossfade_ms) EXCEPT
                                !.default_params = default_params],
             chunks |-> [k \in DOMAIN indices |->
                            [index |-> indices[k], filename |-> indices[k],
                             text |-> fields[k].text,
                             char_start |-> 10 * (indices[k] - 1),
                             char_end |-> 10 * indices[k] - 2,
                             t_start_ms |-> 900 * (indices[k] - 1),
                             duration_ms |-> fields[k].duration_ms,
                             seed |-> 41 + indices[k], params |-> fields[k].params,
                             speaker_id |-> 0]]] :
                fields \in [DOMAIN indices ->
                                [text : RtTexts, duration_ms : RtDurations,
                                 params : RtParams]],
                crossfade_ms \in RtCrossfades,
                default_params \in RtDefaultParams} :
            indices \in RtIndexLists}

RtInit ==
    /\ rt_project \in RtProjects
    /\ rt_docs = <<>>
    /\ ProgramIdle /\ MixIdle /\ TlIdle /\ AcIdle /\ LdIdle /\ FcIdle /\ XfIdle /\ SegIdle

\* save_project(project)
RtSave ==
    /\ rt_docs = <<>>
    /\ rt_docs' = save_project(rt_project)
    /\ UNCHANGED <<rt_project, diskVars, opVars, mixVars, tlVars, acVars, ldVars, fcVars, xfVars,
                   segVars>>

\* project = load_project(path); save_project(project)
RtLoadSave ==
    /\ Len(rt_docs) = 1
    /\ rt_project' = load_project(rt_docs[1])
    /\ rt_docs' = rt_docs \o save_project(load_project(rt_docs[1]))
    /\ UNCHANGED <<diskVars, opVars, mixVars, tlVars, acVars, ldVars, fcVars, xfVars, segVars>>

RtNext == RtSave \/ RtLoadSave

SpecRoundTrip == RtInit /\ [][RtNext]_vars

(***************************************************************************)
(* The load harness: load_project on documents with keys missing.  The     *)
(* full document has no value equal to a default.                          *)
(***************************************************************************)
LdFullSettings ==
    [sample_rate |-> 48000, loudness_lufs |-> -23, model_name |-> "VibeVoice-1.5B",
     attention_type |-> "sdpa", global_seed |-> 7, crossfade_ms |-> 100,
     chunks_dir |-> "takes", final_mix |-> "mix.flac",
     default_params |-> TTSOptions_as_dict(GenerateOptions)]

LdFullChunk ==
    [index |-> 1, filename |-> 1, text |-> "hello", char_start |-> 3, char_end |-> 8,
     t_start_ms |-> 900, duration_ms |-> 1000, seed |-> 9,
     params |-> [mode |-> "import"], speaker_id |-> 1]

LdOptionalChunkKeys == DOMAIN LdFullChunk \ {"index", "filename"}

\* del payload[key] for every key of missing
Without(payload, missing) == [k \in DOMAIN payload \ missing |-> payload[k]]

\* The documents: any keys of the settings missing with the chunk whole or
\* bare, any keys of the chunk missing with the settings whole or empty, and
\* either section missing.
LdMissingChoices ==
    {m \in [settings : SUBSET DOMAIN LdFullSettings, chunk : SUBSET DOMAIN LdFullChunk] :
        \/ m.chunk \in {{}, LdOptionalChunkKeys}
        \/ m.settings \in {{}, DOMAIN LdFullSettings}}

LdDocuments ==
    {Without([project |-> Without(LdFullSettings, m.settings),
              chunks |-> <<Without(LdFullChunk, m.chunk)>>], sections) :
        m \in LdMissingChoices, sections \in SUBSET {"project", "chunks"}}

LdInit ==
    /\ ld_payload \in LdDocuments
    /\ ld_result = <<>>
    /\ ProgramIdle /\ MixIdle /\ TlIdle /\ AcIdle /\ RtIdle /\ FcIdle /\ XfIdle /\ SegIdle

\* load_project(path)
LdLoad ==
    /\ ld_result = <<>>
    /\ LET entries == Get(ld_payload, "chunks", <<>>)
       IN  ld_result' =
                IF \E k \in DOMAIN entries : ChunkData_from_dict_raises(entries[k])
                THEN <<[status |-> "KeyError", project |-> NoProject]>>
                ELSE <<[status |-> "ok", project |-> load_project(ld_payload)]>>
    /\ UNCHANGED <<ld_payload, diskVars, opVars, mixVars, tlVars, acVars, rtVars, fcVars, xfVars,
                   segVars>>

LdNext == LdLoad

SpecLoad == LdInit /\ [][LdNext]_vars

(***************************************************************************)
(* The lookup harness: find_chunk_by_timestamp on a loaded project, the    *)
(* chunks in ascending index order with the start times and durations the  *)
(* document gives them.                                                    *)
(***************************************************************************)
FcChunkLists ==
    UNION {[1..n -> [t_start_ms : FcStarts, duration_ms : FcDurations]] :
            n \in 0..MaxFcChunks}

FcInit ==
    /\ \E list \in FcChunkLists :
            fc_chunks = [k \in DOMAIN list |->
                            [index |-> k, t_start_ms |-> list[k].t_start_ms,
                             duration_ms |-> list[k].duration_ms]]
    /\ fc_timestamp \in FcTimestamps
    /\ fc_result = <<>>
    /\ ProgramIdle /\ MixIdle /\ TlIdle /\ AcIdle /\ RtIdle /\ LdIdle /\ XfIdle /\ SegIdle

\* find_chunk_by_timestamp(project, timestamp_ms)
FcFind ==
    /\ fc_result = <<>>
    /\ fc_result' = <<find_chunk_by_timestamp(fc_chunks, fc_timestamp)>>
    /\ UNCHANGED <<fc_chunks, fc_timestamp, diskVars, opVars, mixVars, tlVars, acVars, rtVars, ldVars,
                   xfVars, segVars>>

FcNext == FcFind

SpecFind == FcInit /\ [][FcNext]_vars

(***************************************************************************)
(* The stitch harness: cosine_crossfade on the first two waveforms of a    *)
(* list and stitch_chunks on the whole list.                               *)
(***************************************************************************)
XfInit ==
    /\ xf_lens \in UNION {[1..n -> XfLens] : n \in 0..MaxXfChunks}
    /\ xf_sample_rate \in XfSampleRates
    /\ xf_crossfade_ms \in XfCrossfades
    /\ xf_samples \in XfSampleCounts
    /\ xf_pair = <<>>
    /\ xf_stitched = <<>>
    /\ xf_offsets = <<>>
    /\ xf_fade = <<>>
    /\ ProgramIdle /\ MixIdle /\ TlIdle /\ AcIdle /\ RtIdle /\ LdIdle /\ FcIdle /\ SegIdle

\* cosine_crossfade(first, second, crossfade_samples)
XfCrossfade ==
    /\ xf_pair = <<>>
    /\ Len(xf_lens) >= 2
    /\ xf_pair' = <<cosine_crossfade(xf_lens[1], xf_lens[2], xf_samples)>>
    /\ UNCHANGED <<xf_lens, xf_sample_rate, xf_crossfade_ms, xf_samples, xf_stitched,
                   xf_offsets, xf_fade,
                   diskVars, opVars, mixVars, tlVars, acVars, rtVars, ldVars, fcVars, segVars>>

\* stitch_chunks(chunk_audios, sample_rate, crossfade_ms)
XfStitch ==
    /\ xf_stitched = <<>>
    /\ xf_stitched' = <<stitch_chunks(xf_lens, xf_sample_rate, xf_crossfade_ms)>>
    /\ xf_offsets' = <<stitch_offsets(xf_lens, xf_sample_rate, xf_crossfade_ms)>>
    /\ UNCHANGED <<xf_lens, xf_sample_rate, xf_crossfade_ms, xf_samples, xf_pair, xf_fade,
                   diskVars, opVars, mixVars, tlVars, acVars, rtVars, ldVars, fcVars, segVars>>

XfNext == XfCrossfade \/ XfStitch

SpecStitch == XfInit /\ [][XfNext]_vars

(***************************************************************************)
(* The offsets harness: a project of chunks whose audio files hold the     *)
(* given sample counts (the durations are those of the files) gets its     *)
(* timeline recalculated, and the files are stitched with the crossfade of *)
(* the project.                                                            *)
(***************************************************************************)
OfInit ==
    /\ xf_lens \in UNION {[1..n -> RenderLens] : n \in 0..MaxXfChunks}
    /\ xf_sample_rate = 24000
    /\ xf_crossfade_ms \in TlCrossfades
    /\ xf_samples = 0
    /\ xf_pair = <<>>
    /\ xf_stitched = <<>>
    /\ xf_offsets = <<>>
    /\ xf_fade = <<>>
    /\ tl_crossfade = xf_crossfade_ms
    /\ tl_chunks = [k \in DOMAIN xf_lens |->
                        [index |-> k, t_start_ms |-> 0,
                         duration_ms |-> calculate_duration_ms(xf_lens[k], xf_sample_rate)]]
    /\ tl_history = <<>>
    /\ ProgramIdle /\ MixIdle /\ AcIdle /\ RtIdle /\ LdIdle /\ FcIdle /\ SegIdle

NextOffsets == TlRecalculate \/ XfStitch

SpecOffsets == OfInit /\ [][NextOffsets]_vars

(***************************************************************************)
(* The fade harness: cosine_crossfade on two short waveforms, its fade     *)
(* curves kept.                                                            *)
(***************************************************************************)
FdInit ==
    /\ xf_lens \in [1..2 -> 0..MaxFadeSamples]
    /\ xf_samples \in 0..MaxFadeSamples
    /\ xf_sample_rate = 0
    /\ xf_crossfade_ms = 0
    /\ xf_pair = <<>>
    /\ xf_stitched = <<>>
    /\ xf_offsets = <<>>
    /\ xf_fade = <<>>
    /\ ProgramIdle /\ MixIdle /\ TlIdle /\ AcIdle /\ RtIdle /\ LdIdle /\ FcIdle /\ SegIdle

\* cosine_crossfade(first, second, crossfade_samples)
FdCrossfade ==
    /\ xf_pair = <<>>
    /\ xf_pair' = <<cosine_crossfade(xf_lens[1], xf_lens[2], xf_samples)>>
    /\ xf_fade' = <<crossfade_fade(xf_lens[1], xf_lens[2], xf_samples)>>
    /\ UNCHANGED <<xf_lens, xf_sample_rate, xf_crossfade_ms, xf_samples, xf_stitched,
                   xf_offsets,
                   diskVars, opVars, mixVars, tlVars, acVars, rtVars, ldVars, fcVars,
                   segVars>>

SpecFade == FdInit /\ [][FdCrossfade]_vars

(***************************************************************************)
(* The segmentation harness: generate_project on a script, the splitter    *)
(* having returned some raw segments for it.                               *)
(***************************************************************************)
SegScripts ==
    {script \in UNION {[1..n -> Alphabet] : n \in 0..MaxScriptLen} :
        Cardinality(WordStarts(script)) <= MaxGenChunks}

SegInit ==
    /\ seg_script \in SegScripts
    /\ seg_raw \in SplitterOutputs(seg_script)
    /\ ProgramIdle /\ MixIdle /\ TlIdle /\ AcIdle /\ RtIdle /\ LdIdle /\ FcIdle /\ XfIdle

NextSegment ==
    \/ \E crossfade_ms \in CrossfadeChoices :
            GenerateBegin(chunk_script(seg_script, seg_raw), crossfade_ms)
    \/ \E len \in ArchiveLens : GenerateChunk(len)

SpecSegment == SegInit /\ [][NextSegment]_vars

(***************************************************************************)
(* Views of the persisted project.                                         *)
(***************************************************************************)
\* The chunk entries and the settings of project.json (ascending index order).
DocChunks == IF project_json = <<>> THEN <<>> ELSE project_json[1].chunks
DocCrossfade == project_json[1].project.crossfade_ms
DocSampleRate == project_json[1].project.sample_rate

\* The timeline recurrence, stated on a chunk list in ascending index order.
TimelineConsistent(chunks, crossfade_ms) ==
    \A k \in DOMAIN chunks :
        chunks[k].t_start_ms =
            IF k = 1 THEN 0
            ELSE Max(chunks[k - 1].t_start_ms + chunks[k - 1].duration_ms - crossfade_ms, 0)

\* A call has returned normally and nothing runs.
Returned == pc = "idle" /\ outcome = "ok" /\ project_json # <<>>

(***************************************************************************)
(* C1: after generate_project and after every replace_chunk call that      *)
(* returns, the persisted chunks satisfy the timeline recurrence: the      *)
(* first starts at 0, every later one at max(prev.start + prev.duration -  *)
(* crossfade, 0).  The code breaks this: a locked replacement of a chunk   *)
(* whose stored duration is 0 stores the new duration and recomputes       *)
(* nothing.                                                                *)
(***************************************************************************)
C1_PersistedTimelineConsistent ==
    Returned => TimelineConsistent(DocChunks, DocCrossfade)

(***************************************************************************)
(* C2: recalculate_timeline gives the first chunk (in index order) start 0 *)
(* and every later chunk max(prev.start + prev.duration - crossfade, 0),   *)
(* leaving durations alone; durations [1000, 1000, 1000] with crossfade    *)
(* 100 give starts [0, 900, 1800].                                         *)
(***************************************************************************)
TlDurationsAre(chunks, durations) ==
    /\ Len(chunks) = Len(durations)
    /\ \A k \in DOMAIN chunks : chunks[k].duration_ms = durations[k]

C2_RecalculateFollowsRecurrence ==
    Len(tl_history) >= 1 =>
        /\ TimelineConsistent(tl_chunks, tl_crossfade)
        /\ Len(tl_chunks) = Len(tl_history[1])
        /\ \A k \in DOMAIN tl_chunks :
                /\ tl_chunks[k].duration_ms = tl_history[1][k].duration_ms
                /\ tl_chunks[k].index = tl_history[1][k].index
        /\ (TlDurationsAre(tl_chunks, <<1000, 1000, 1000>>) /\ tl_crossfade = 100
                => [k \in DOMAIN tl_chunks |-> tl_chunks[k].t_start_ms] = <<0, 900, 1800>>)

\* The spec's example was recalculated from start times that were stale.
C2_Witness ==
    /\ Len(tl_history) = 1
    /\ TlDurationsAre(tl_chunks, <<1000, 1000, 1000>>)
    /\ tl_crossfade = 100
    /\ [k \in DOMAIN tl_chunks |-> tl_history[1][k].t_start_ms] = <<900, 0, 900>>
    /\ [k \in DOMAIN tl_chunks |-> tl_chunks[k].t_start_ms] = <<0, 900, 1800>>

(***************************************************************************)
(* C3 as stated: after recalculate_timeline every two consecutive chunks   *)
(* overlap by exactly crossfade_ms and no start is negative.               *)
(***************************************************************************)
Overlap(chunks, k) == chunks[k - 1].t_start_ms + chunks[k - 1].duration_ms - chunks[k].t_start_ms

C3_OverlapExactlyCrossfade ==
    Len(tl_history) >= 1 =>
        \A k \in DOMAIN tl_chunks :
            /\ tl_chunks[k].t_start_ms >= 0
            /\ k > 1 => Overlap(tl_chunks, k) = tl_crossfade

(***************************************************************************)
(* C3 amended: after recalculate_timeline no start is negative and two     *)
(* consecutive chunks overlap by min(crossfade_ms, end of the previous     *)
(* chunk): by exactly the crossfade unless the previous chunk ends before  *)
(* crossfade_ms, in which case the next chunk starts at 0.                 *)
(***************************************************************************)
C3_OverlapClampedCrossfade ==
    Len(tl_history) >= 1 =>
        \A k \in DOMAIN tl_chunks :
            /\ tl_chunks[k].t_start_ms >= 0
            /\ k > 1 =>
                Overlap(tl_chunks, k) =
                    Min(tl_crossfade,
                        tl_chunks[k - 1].t_start_ms + tl_chunks[k - 1].duration_ms)

\* A recalculated list with one clamped pair and one pair overlapping by the
\* whole crossfade.
C3_Witness ==
    /\ Len(tl_history) >= 1
    /\ tl_crossfade > 0
    /\ \E k \in DOMAIN tl_chunks : k > 1 /\ Overlap(tl_chunks, k) < tl_crossfade
    /\ \E k \in DOMAIN tl_chunks :
            k > 1 /\ tl_chunks[k].t_start_ms > 0 /\ Overlap(tl_chunks, k) = tl_crossfade

(***************************************************************************)
(* C4: in every state reached by generate_project and replace_chunk calls  *)
(* every chunk, persisted or loaded, has t_start_ms >= 0 and               *)
(* duration_ms >= 0, also when a chunk is shorter than the crossfade.      *)
(***************************************************************************)
C4_StartsAndDurationsNonNegative ==
    /\ \A k \in DOMAIN DocChunks :
            DocChunks[k].t_start_ms >= 0 /\ DocChunks[k].duration_ms >= 0
    /\ \A k \in DOMAIN project.chunks :
            project.chunks[k].t_start_ms >= 0 /\ project.chunks[k].duration_ms >= 0

\* A replacement in free mode has returned and left a chunk shorter than the
\* crossfade in front of another chunk.
C4_Witness ==
    /\ Returned
    /\ \E i \in Indices : replaced[i] > 0
    /\ \E k \in DOMAIN DocChunks :
            /\ k > 1
            /\ DocChunks[k - 1].t_start_ms + DocChunks[k - 1].duration_ms - DocCrossfade < 0
            /\ DocChunks[k].t_start_ms = 0
            /\ written[DocChunks[k - 1].index] # <<>>
            /\ Len(written[DocChunks[k - 1].index]) > 1

(***************************************************************************)
(* C5: recalculate_timeline is idempotent: a second application to the     *)
(* unchanged chunk list leaves every t_start_ms as the first application   *)
(* set it, whatever the start times were before.                           *)
(***************************************************************************)
C5_RecalculateIdempotent ==
    Len(tl_history) >= 2 => tl_chunks = tl_history[2]

\* Recalculated twice from stale start times that the first run changed.
C5_Witness ==
    /\ Len(tl_history) = 2
    /\ Len(tl_chunks) >= 2
    /\ \E k \in DOMAIN tl_chunks : tl_history[1][k].t_start_ms # tl_history[2][k].t_start_ms
    /\ \E k \in DOMAIN tl_chunks : tl_chunks[k].t_start_ms > 0

(***************************************************************************)
(* The last step of a replace_chunk call: it overwrites project.json.      *)
(* Before the step project.json is the document the call loaded, after it  *)
(* the document the call leaves.                                           *)
(***************************************************************************)
Saving == pc = "save" /\ pc' = "idle"
\* Position, in the document, of the chunk the running call replaces.
DocPos == get_chunk(DocChunks, call.index)
Starts(chunks) == [k \in DOMAIN chunks |-> chunks[k].t_start_ms]

(***************************************************************************)
(* C6 as stated: a replace_chunk in locked mode leaves the stored          *)
(* duration_ms of the replaced chunk and the t_start_ms of every chunk as  *)
(* they were, for every chunk.                                             *)
(***************************************************************************)
C6_LockedKeepsDurationAndStarts ==
    [][Saving /\ call.timeline_mode = "locked" =>
            /\ DocChunks'[DocPos].duration_ms = DocChunks[DocPos].duration_ms
            /\ Starts(DocChunks') = Starts(DocChunks)]_vars

(***************************************************************************)
(* C6 amended: a replace_chunk in locked mode leaves the t_start_ms of     *)
(* every chunk as it was, and leaves the stored duration_ms of the         *)
(* replaced chunk as it was when that duration is greater than 0; a chunk  *)
(* stored with duration 0 gets the duration of the new audio.              *)
(***************************************************************************)
C6_LockedKeepsPositiveDurationAndStarts ==
    [][Saving /\ call.timeline_mode = "locked" =>
            /\ Starts(DocChunks') = Starts(DocChunks)
            /\ DocChunks'[DocPos].duration_ms =
                    IF DocChunks[DocPos].duration_ms > 0
                    THEN DocChunks[DocPos].duration_ms
                    ELSE new_duration]_vars

\* A locked replacement, about to save, of a chunk of positive duration by
\* audio of another duration, with a chunk behind it.
C6_Witness ==
    /\ pc = "save"
    /\ call.timeline_mode = "locked"
    /\ DocChunks[DocPos].duration_ms > 0
    /\ new_duration # DocChunks[DocPos].duration_ms
    /\ project.chunks[ChunkPos].duration_ms = DocChunks[DocPos].duration_ms
    /\ DocPos < Len(DocChunks)

(***************************************************************************)
(* C7: a locked replacement of a chunk stored with duration D > 0 writes a *)
(* chunk file of exactly round(D * sample_rate / 1000) samples, whatever   *)
(* the length of the new audio.  The code breaks this for audio whose      *)
(* duration is 0 ms: time_stretch_to_duration returns it as it is.         *)
(***************************************************************************)
C7_LockedFileHasTargetSampleCount ==
    (/\ pc \in {"recalculate", "save"}
     /\ call.timeline_mode = "locked"
     /\ DocChunks[DocPos].duration_ms > 0)
        => chunk_files[DocChunks[DocPos].filename].len =
                PyRound(DocChunks[DocPos].duration_ms * DocSampleRate, 1000)

(***************************************************************************)
(* C8: a replace_chunk in free mode stores, as the duration_ms of the      *)
(* replaced chunk, the duration of the new audio (the audio now in the     *)
(* chunk's file), and the document it saves has the t_start_ms of all      *)
(* chunks recomputed from the new durations.                               *)
(***************************************************************************)
C8_FreeStoresNewDurationAndRecomputes ==
    [][Saving /\ call.timeline_mode = "free" =>
            /\ DocChunks'[DocPos].duration_ms =
                    calculate_duration_ms(chunk_files[DocChunks[DocPos].filename].len,
                                          DocSampleRate)
            /\ chunk_files[DocChunks[DocPos].filename] = audio
            /\ DocChunks'[DocPos].duration_ms = new_duration
            /\ Starts(DocChunks') = Starts(recalculate_timeline(DocChunks', DocCrossfade))
            /\ TimelineConsistent(DocChunks', DocCrossfade)]_vars

\* A free replacement, about to save, whose new duration differs from the
\* stored one and moves the chunk behind it.
C8_Witness ==
    /\ pc = "save"
    /\ call.timeline_mode = "free"
    /\ new_duration # DocChunks[DocPos].duration_ms
    /\ DocPos < Len(DocChunks)
    /\ project.chunks[ChunkPos + 1].t_start_ms # DocChunks[DocPos + 1].t_start_ms

(***************************************************************************)
(* C9: a replace_chunk on index i that returns changes, in the document,   *)
(* only seed, params and duration_ms of chunk i and the t_start_ms of      *)
(* chunks with a greater index; the settings, the number and indices of    *)
(* the chunks, the t_start_ms of the chunks up to i and all other fields   *)
(* stay.  The code breaks this after the stale timeline of C1: a free      *)
(* replacement then moves chunks at or before i.                           *)
(***************************************************************************)
SameExcept(old, new, fields) ==
    /\ DOMAIN old = DOMAIN new
    /\ \A f \in DOMAIN old \ fields : old[f] = new[f]

C9_ReplaceChangesOnlyChunkAndLaterStarts ==
    [][Saving =>
            /\ project_json'[1].project = project_json[1].project
            /\ Len(DocChunks') = Len(DocChunks)
            /\ \A k \in DOMAIN DocChunks :
                    /\ DocChunks'[k].index = DocChunks[k].index
                    /\ IF DocChunks[k].index = call.index
                       THEN SameExcept(DocChunks[k], DocChunks'[k],
                                       {"seed", "params", "duration_ms"})
                       ELSE IF DocChunks[k].index < call.index
                       THEN DocChunks'[k] = DocChunks[k]
                       ELSE SameExcept(DocChunks[k], DocChunks'[k], {"t_start_ms"})]_vars

(***************************************************************************)
(* C10: with an empty archive to start from and every call returning,      *)
(* after k replacements of a chunk the archive holds exactly the versions  *)
(* 1..k of its stem, and version j holds the audio that was the chunk's    *)
(* file right before the j-th replacement (the j-th audio written to it).  *)
(***************************************************************************)
C10_ArchiveHoldsPreviousAudioInOrder ==
    \A i \in Indices :
        (pc = "idle" /\ aborted[i] = 0) =>
            /\ ArchiveVersions(archive_files, Stem(i)) =
                    {<<Stem(i), j>> : j \in 1..replaced[i]}
            /\ \A j \in 1..replaced[i] : archive_files[<<Stem(i), j>>] = written[i][j]

\* The first chunk replaced three times, each time by different audio.
C10_Witness ==
    /\ pc = "idle"
    /\ aborted[1] = 0
    /\ replaced[1] = 3
    /\ archive_files[<<Stem(1), 1>>].tag = <<1, 1>>
    /\ archive_files[<<Stem(1), 3>>].tag = <<1, 3>>
    /\ chunk_files[1].tag = <<1, 4>>

(***************************************************************************)
(* C11: a replace_chunk that raises after the archive step (render or      *)
(* import failure, rejected arguments) leaves the chunk's audio file       *)
(* absent and project.json as the call loaded it; the archive changes only *)
(* in the archive step, and that step adds no version when the chunk's     *)
(* file is absent, so a retry that returns recreates the file and adds no  *)
(* archive version.                                                        *)
(***************************************************************************)
C11_FailedReplaceLeavesFileMissing ==
    [][/\ (pc = "render" /\ pc' = "idle") =>
            /\ project.chunks[ChunkPos].filename \notin DOMAIN chunk_files'
            /\ project_json' = project_json
            /\ load_project(project_json'[1]) = project
       /\ pc # "archive" => archive_files' = archive_files
       /\ (pc = "archive" /\ project.chunks[ChunkPos].filename \notin DOMAIN chunk_files)
            => archive_files' = archive_files
       /\ Saving => project.chunks[ChunkPos].filename \in DOMAIN chunk_files']_vars

\* A retry, about to return, of a replacement that raised after archiving:
\* the file is back and the archive holds the one version of the failed call.
C11_Witness ==
    /\ pc = "save"
    /\ aborted[call.index] = 1
    /\ replaced[call.index] = 0
    /\ outcome = "none"
    /\ call.index \in DOMAIN chunk_files
    /\ chunk_files[call.index].tag = <<call.index, 2>>
    /\ ArchiveVersions(archive_files, Stem(call.index)) = {<<Stem(call.index), 1>>}
    /\ archive_files[<<Stem(call.index), 1>>].tag = <<call.index, 1>>

(***************************************************************************)
(* The renderer raises inside generate_project while chunk FailedChunk is  *)
(* being produced.                                                         *)
(***************************************************************************)
GenerateFails == pc = "generate" /\ pc' = "idle" /\ outcome' = "RenderError"
FailedChunk == Head(gen_todo).idx

\* The document on disk after the step loads, holds exactly the chunks 1..n,
\* each with its audio file, and its start times follow the recurrence.
CheckpointHolds(n) ==
    /\ project_json' # <<>>
    /\ LET loaded == load_project(project_json'[1])
       IN  /\ [k \in DOMAIN loaded.chunks |-> loaded.chunks[k].index] = [k \in 1..n |-> k]
           /\ \A k \in DOMAIN loaded.chunks :
                    loaded.chunks[k].filename \in DOMAIN chunk_files'
           /\ TimelineConsistent(loaded.chunks, loaded.settings.crossfade_ms)

(***************************************************************************)
(* C12 as stated: when the renderer fails while generate_project produces  *)
(* chunk k, the persisted document is loadable and contains exactly the    *)
(* chunks 1..k-1, each with its audio file present and with start times    *)
(* that satisfy the timeline recurrence.                                   *)
(***************************************************************************)
C12_FailureLeavesLoadablePartialProject ==
    [][GenerateFails => CheckpointHolds(FailedChunk - 1)]_vars

(***************************************************************************)
(* C12 amended: the same for a failure at a chunk k >= 2; when the         *)
(* renderer fails at the first chunk, generate_project has saved nothing   *)
(* and project.json is as it was before the call (absent in a new          *)
(* project directory).                                                     *)
(***************************************************************************)
C12_FailureAfterFirstChunkLeavesPartialProject ==
    [][GenerateFails =>
            IF FailedChunk >= 2
            THEN CheckpointHolds(FailedChunk - 1)
            ELSE project_json' = <<>> /\ project_json = <<>>]_vars

\* The renderer has failed at the third chunk: two chunks are saved with
\* their files, the second placed behind the first.
C12_Witness ==
    /\ pc = "idle"
    /\ outcome = "RenderError"
    /\ ncalls = 0
    /\ Len(DocChunks) = 2
    /\ DocChunks[2].t_start_ms > 0
    /\ DOMAIN chunk_files = {1, 2}

(***************************************************************************)
(* C13: after any sequence of add_chunk calls, in any order of indices,    *)
(* the chunk list has no two chunks with the same index, holds for every   *)
(* index added the chunk of the last call with that index, and is in       *)
(* ascending index order; the saved document lists the same chunks in      *)
(* ascending index order.                                                  *)
(***************************************************************************)
Ascending(chunks) ==
    \A j, k \in DOMAIN chunks : j < k => chunks[j].index < chunks[k].index

\* The chunk added by the last call that had this index.
LastAdded(index) ==
    ac_log[CHOOSE k \in DOMAIN ac_log :
                /\ ac_log[k].index = index
                /\ \A j \in DOMAIN ac_log : ac_log[j].index = index => j <= k]

C13_AddChunkUniqueAndAscending ==
    LET saved == save_project([settings |-> GenerateSettings(40), chunks |-> ac_chunks])[1]
    IN  /\ \A j, k \in DOMAIN ac_chunks :
                ac_chunks[j].index = ac_chunks[k].index => j = k
        /\ Ascending(ac_chunks)
        /\ {ac_chunks[k].index : k \in DOMAIN ac_chunks} =
                {ac_log[k].index : k \in DOMAIN ac_log}
        /\ \A k \in DOMAIN ac_chunks : ac_chunks[k] = LastAdded(ac_chunks[k].index)
        /\ Ascending(saved.chunks)
        /\ Len(saved.chunks) = Len(ac_chunks)
        /\ \A k \in DOMAIN ac_chunks : saved.chunks[k] = ChunkData_to_dict(ac_chunks[k])

\* Index 3 was added first, index 1 after it, and index 3 once more.
C13_Witness ==
    /\ Len(ac_log) = 4
    /\ [k \in DOMAIN ac_log |-> ac_log[k].index] = <<3, 1, 3, 2>>
    /\ [k \in DOMAIN ac_chunks |-> ac_chunks[k].text] = <<2, 4, 3>>

(***************************************************************************)
(* C14: for every well-formed ProjectData, saving it, loading the saved    *)
(* document and saving again gives a document equal to the first one field *)
(* for field: the settings (with default_params left out when empty) and   *)
(* every field of every chunk; the project loaded in between has the same  *)
(* settings and chunks as the saved documents.                             *)
(***************************************************************************)
C14_SaveLoadSaveRoundTrips ==
    Len(rt_docs) = 2 =>
        /\ DOMAIN rt_docs[2] = DOMAIN rt_docs[1]
        /\ DOMAIN rt_docs[2].project = DOMAIN rt_docs[1].project
        /\ \A f \in DOMAIN rt_docs[1].project :
                rt_docs[2].project[f] = rt_docs[1].project[f]
        /\ Len(rt_docs[2].chunks) = Len(rt_docs[1].chunks)
        /\ \A k \in DOMAIN rt_docs[1].chunks :
                /\ DOMAIN rt_docs[2].chunks[k] = DOMAIN rt_docs[1].chunks[k]
                /\ \A f \in DOMAIN rt_docs[1].chunks[k] :
                        rt_docs[2].chunks[k][f] = rt_docs[1].chunks[k][f]
        /\ DOMAIN rt_project.settings.default_params =
                IF "default_params" \in DOMAIN rt_docs[1].project
                THEN DOMAIN rt_docs[1].project.default_params
                ELSE {}

\* A project with empty default_params and two chunks, one with parameters
\* and one without, has gone through save, load and save.
C14_Witness ==
    /\ Len(rt_docs) = 2
    /\ "default_params" \notin DOMAIN rt_docs[1].project
    /\ Len(rt_docs[2].chunks) = 2
    /\ rt_docs[2].chunks[1].params = EmptyDict
    /\ rt_docs[2].chunks[2].params # EmptyDict
    /\ rt_docs[2].chunks[2].text = ""

(***************************************************************************)
(* C15: load_project succeeds on a document in which any of the optional   *)
(* keys is missing (any key of the settings, any key of a chunk other than *)
(* index and filename, the project section, the chunks section) and puts   *)
(* the default in the place of each missing value: sample_rate 24000,      *)
(* loudness_lufs -16.0, model_name VibeVoice-Large, attention_type auto,   *)
(* global_seed 42, crossfade_ms 40, chunks_dir chunks, final_mix           *)
(* final_mix.flac, default_params {}, text "", the chunk's offsets, start, *)
(* duration, seed and speaker_id 0, params {}.                             *)
(***************************************************************************)
DocumentedSettings ==
    [sample_rate |-> 24000, loudness_lufs |-> -16, model_name |-> "VibeVoice-Large",
     attention_type |-> "auto", global_seed |-> 42, crossfade_ms |-> 40,
     chunks_dir |-> "chunks", final_mix |-> "final_mix.flac",
     default_params |-> EmptyDict]

DocumentedChunk ==
    [text |-> "", char_start |-> 0, char_end |-> 0, t_start_ms |-> 0, duration_ms |-> 0,
     seed |-> 0, params |-> EmptyDict, speaker_id |-> 0]

LdEntries == IF "chunks" \in DOMAIN ld_payload THEN ld_payload.chunks ELSE <<>>
LdSection == IF "project" \in DOMAIN ld_payload THEN ld_payload.project ELSE EmptyDict

C15_LoadSubstitutesDefaults ==
    (/\ ld_result # <<>>
     /\ \A k \in DOMAIN LdEntries : {"index", "filename"} \subseteq DOMAIN LdEntries[k])
        => /\ ld_result[1].status = "ok"
           /\ DOMAIN ld_result[1].project.settings = DOMAIN DocumentedSettings
           /\ \A f \in DOMAIN DocumentedSettings :
                    ld_result[1].project.settings[f] =
                        IF f \in DOMAIN LdSection THEN LdSection[f] ELSE DocumentedSettings[f]
           /\ Len(ld_result[1].project.chunks) = Len(LdEntries)
           /\ \A k \in DOMAIN LdEntries :
                    /\ DOMAIN ld_result[1].project.chunks[k] = DOMAIN LdFullChunk
                    /\ \A f \in DOMAIN LdFullChunk :
                            ld_result[1].project.chunks[k][f] =
                                IF f \in DOMAIN LdEntries[k] THEN LdEntries[k][f]
                                ELSE DocumentedChunk[f]

\* A document with no project section and a chunk of index and filename
\* alone has been loaded.
C15_Witness ==
    /\ ld_result # <<>>
    /\ ld_result[1].status = "ok"
    /\ "project" \notin DOMAIN ld_payload
    /\ Len(LdEntries) = 1
    /\ DOMAIN LdEntries[1] = {"index", "filename"}
    /\ ld_result[1].project.settings.crossfade_ms = 40
    /\ ld_result[1].project.chunks[1].text = ""

(***************************************************************************)
(* The lookup harness seen by the claims.                                  *)
(***************************************************************************)
\* The positions of the chunks whose half-open interval holds the timestamp.
Containing ==
    {k \in DOMAIN fc_chunks :
        /\ fc_chunks[k].t_start_ms <= fc_timestamp
        /\ fc_timestamp < fc_chunks[k].t_start_ms + fc_chunks[k].duration_ms}

FcSpans == [k \in DOMAIN fc_chunks |-> <<fc_chunks[k].t_start_ms, fc_chunks[k].duration_ms>>]

(***************************************************************************)
(* C16: find_chunk_by_timestamp returns the lowest-index chunk whose       *)
(* interval [t_start_ms, t_start_ms + duration_ms) contains the timestamp; *)
(* when no interval contains it and the timestamp is at or after the       *)
(* t_start_ms of the last (highest-index) chunk, it returns that chunk.    *)
(* With the chunks (0, 1000) and (900, 1000) it returns the first for 500, *)
(* the second for 1500 and the second for 5000.                            *)
(***************************************************************************)
C16_FindReturnsFirstContainingOrLast ==
    fc_result # <<>> =>
        /\ Containing # {} =>
                \E k \in Containing :
                    /\ fc_result[1] = fc_chunks[k].index
                    /\ \A j \in Containing : fc_chunks[j].index >= fc_chunks[k].index
        /\ (/\ Containing = {}
            /\ fc_chunks # <<>>
            /\ \E k \in DOMAIN fc_chunks :
                    /\ \A j \in DOMAIN fc_chunks : fc_chunks[j].index <= fc_chunks[k].index
                    /\ fc_timestamp >= fc_chunks[k].t_start_ms)
                => \E k \in DOMAIN fc_chunks :
                        /\ \A j \in DOMAIN fc_chunks : fc_chunks[j].index <= fc_chunks[k].index
                        /\ fc_result[1] = fc_chunks[k].index
        /\ FcSpans = <<<<0, 1000>>, <<900, 1000>>>> =>
                /\ fc_timestamp = 500 => fc_result[1] = 1
                /\ fc_timestamp = 1500 => fc_result[1] = 2
                /\ fc_timestamp = 5000 => fc_result[1] = 2

\* The tail fallback of the spec's example: 5000 on (0, 1000), (900, 1000).
C16_Witness ==
    /\ fc_result = <<2>>
    /\ fc_timestamp = 5000
    /\ FcSpans = <<<<0, 1000>>, <<900, 1000>>>>
    /\ Containing = {}

(***************************************************************************)
(* C17 as stated: for every chunk list and every timestamp at or after the *)
(* first chunk's t_start_ms some chunk is returned; None is returned only  *)
(* when the project has no chunk or the timestamp is before the first      *)
(* chunk's start.                                                          *)
(***************************************************************************)
C17_FindReturnsNoneOnlyBeforeFirst ==
    (fc_result # <<>> /\ fc_chunks # <<>> /\ fc_timestamp >= fc_chunks[1].t_start_ms)
        => fc_result[1] # 0

(***************************************************************************)
(* C17 amended: the same for every chunk list in which no chunk starts     *)
(* after the end of the chunk before it (as in every timeline the          *)
(* recurrence gives for a crossfade >= 0); a timestamp that falls into a   *)
(* gap between two chunks gets None.                                       *)
(***************************************************************************)
NoGaps ==
    \A k \in DOMAIN fc_chunks :
        k > 1 => fc_chunks[k].t_start_ms
                    <= fc_chunks[k - 1].t_start_ms + fc_chunks[k - 1].duration_ms

C17_FindReturnsNoneOnlyBeforeFirstOrInGap ==
    (/\ fc_result # <<>>
     /\ fc_chunks # <<>>
     /\ fc_timestamp >= fc_chunks[1].t_start_ms
     /\ NoGaps)
        => fc_result[1] # 0

\* A timestamp past the end of every chunk of a list without gaps, the last
\* chunk starting before the one in front of it ends.
C17_Witness ==
    /\ fc_result # <<>>
    /\ fc_result[1] = 3
    /\ Len(fc_chunks) = 3
    /\ NoGaps
    /\ Containing = {}
    /\ fc_chunks[2].t_start_ms > 0
    /\ fc_chunks[3].t_start_ms < fc_chunks[2].t_start_ms + fc_chunks[2].duration_ms
    /\ fc_timestamp >= fc_chunks[1].t_start_ms

(***************************************************************************)
(* C18: for every two waveforms and every crossfade sample count (>= 0, as *)
(* crossfade_ms is) cosine_crossfade returns len(first) + len(second) -    *)
(* min(crossfade_samples, len(first), len(second)) samples; stitch_chunks  *)
(* applies it from left to right with crossfade_samples =                  *)
(* round(sample_rate * crossfade_ms / 1000), and gives a result of length  *)
(* 0 for an empty sequence.                                                *)
(***************************************************************************)
CrossfadedLen(first, second, samples) == first + second - Min(samples, Min(first, second))

\* The length the claim gives for the first n waveforms stitched left to right.
RECURSIVE StitchedLen(_, _, _)
StitchedLen(lens, n, samples) ==
    IF n = 0 THEN 0
    ELSE IF n = 1 THEN lens[1]
    ELSE CrossfadedLen(StitchedLen(lens, n - 1, samples), lens[n], samples)

C18_CrossfadeLengthAndStitch ==
    /\ xf_pair # <<>> => xf_pair[1] = CrossfadedLen(xf_lens[1], xf_lens[2], xf_samples)
    /\ xf_stitched # <<>> =>
            /\ xf_stitched[1] =
                    StitchedLen(xf_lens, Len(xf_lens),
                                PyRound(xf_sample_rate * xf_crossfade_ms, 1000))
            /\ xf_lens = <<>> => xf_stitched[1] = 0

\* A waveform of 3 samples between two of one second, stitched at 40 ms and
\* 24000 Hz (960 samples): the first overlap is clamped to 3 samples; the
\* pairwise call asked for more samples than either waveform has.
C18_Witness ==
    /\ xf_lens = <<24000, 3, 24000>>
    /\ xf_sample_rate = 24000
    /\ xf_crossfade_ms = 40
    /\ xf_samples = 30000
    /\ xf_pair = <<24000>>
    /\ xf_stitched = <<47040>>

(***************************************************************************)
(* The spans of the running generate_project, in order: those of the       *)
(* chunks already saved and those still to render.                         *)
(***************************************************************************)
SpanOf(entry) ==
    [text |-> entry.text, char_start |-> entry.char_start, char_end |-> entry.char_end]
Spans ==
    [k \in DOMAIN project.chunks |-> SpanOf(project.chunks[k])]
        \o [k \in DOMAIN gen_todo |-> SpanOf(gen_todo[k])]

(***************************************************************************)
(* C19: the spans _chunk_script produces are ordered and do not overlap:   *)
(* every span has 0 <= char_start <= char_end, and its char_start is at or *)
(* after the char_end of the span before it.  The code breaks this when a  *)
(* segment is not found at or after the cursor but occurs before it: the   *)
(* span is put at the first occurrence in the script.                      *)
(***************************************************************************)
C19_SpansOrderedNonOverlapping ==
    pc = "generate" =>
        \A k \in DOMAIN Spans :
            /\ 0 <= Spans[k].char_start
            /\ Spans[k].char_start <= Spans[k].char_end
            /\ k > 1 => Spans[k].char_start >= Spans[k - 1].char_end

(***************************************************************************)
(* C20: raw segments that are empty or whitespace-only produce no span     *)
(* (the spans are the other segments, stripped, in order), and when no     *)
(* segment is left generate_project raises the configuration error         *)
(* (ValueError) without rendering a chunk or writing a project document.   *)
(***************************************************************************)
IsBlank(str) == \A i \in DOMAIN str : str[i] = " "
NonBlankRaw == SelectSeq(seg_raw, LAMBDA str : ~IsBlank(str))

C20_BlankSegmentsDroppedAndEmptyScriptRejected ==
    /\ pc = "generate" =>
            /\ Len(Spans) = Len(NonBlankRaw)
            /\ \A k \in DOMAIN Spans :
                    /\ ~IsBlank(Spans[k].text)
                    /\ Spans[k].text # <<>>
                    /\ Spans[k].text[1] # " "
                    /\ Spans[k].text[Len(Spans[k].text)] # " "
                    /\ \E lead, trail \in 0..MaxScriptLen :
                            /\ Len(NonBlankRaw[k]) = lead + Len(Spans[k].text) + trail
                            /\ SubSeq(NonBlankRaw[k], lead + 1, lead + Len(Spans[k].text))
                                    = Spans[k].text
    /\ NonBlankRaw = <<>> =>
            /\ pc = "idle"
            /\ outcome \in {"none", "ValueError"}
            /\ project_json = <<>>
            /\ chunk_files = EmptyDict
            /\ \A i \in Indices : written[i] = <<>>
    /\ outcome = "ValueError" => NonBlankRaw = <<>>
    /\ (outcome = "none" /\ pc = "idle") => project_json = <<>>

\* generate_project has raised on a script of spaces that the splitter
\* returned as one whitespace-only segment.
C20_Witness ==
    /\ outcome = "ValueError"
    /\ pc = "idle"
    /\ Len(seg_script) >= 2
    /\ seg_raw = <<seg_script>>
    /\ project_json = <<>>
    /\ chunk_files = EmptyDict

(***************************************************************************)
(* The steps of a replace_chunk call, seen from outside.                   *)
(***************************************************************************)
\* The call ends at its first step: it raises before anything is archived.
FailsAtLoad == pc = "idle" /\ pc' = "idle" /\ ncalls' = ncalls + 1
\* The call goes on to the archive step.
PassesLoad == pc = "idle" /\ pc' = "archive"
DocIndices == {DocChunks[k].index : k \in DOMAIN DocChunks}
DirectoryUnchanged ==
    /\ project_json' = project_json
    /\ chunk_files' = chunk_files
    /\ archive_files' = archive_files
    /\ final_mix' = final_mix

(***************************************************************************)
(* C21: a replace_chunk call on an index that no chunk of the project has  *)
(* fails with an error (ValueError) and leaves the project document, every *)
(* chunk audio file and the archive directory as they were: the calls that *)
(* go past the lookup are on an index the document has, and the calls that *)
(* end at the lookup raise and change no file.                             *)
(***************************************************************************)
C21_AbsentIndexFailsAndChangesNothing ==
    [][/\ PassesLoad => call'.index \in DocIndices
       /\ FailsAtLoad => outcome' = "ValueError" /\ DirectoryUnchanged]_vars

\* A call on an absent index has raised in a project whose first chunk was
\* replaced before: the archive holds a version and every chunk has its file.
C21_Witness ==
    /\ pc = "idle"
    /\ outcome = "ValueError"
    /\ ncalls = 2
    /\ replaced[1] = 1
    /\ \A i \in Indices : aborted[i] = 0
    /\ Len(DocChunks) = 2
    /\ DOMAIN chunk_files = {1, 2}
    /\ DOMAIN archive_files = {<<Stem(1), 1>>}

(***************************************************************************)
(* C22: build_final_mix never modifies the project document, the chunk     *)
(* audio files or the archive; when the audio file of a chunk of the       *)
(* document is missing it fails with the not-found error and writes no     *)
(* final mix file (a mix built before stays as it is), otherwise it writes *)
(* the final mix stitched from the audio of all chunks in ascending index  *)
(* order.                                                                  *)
(***************************************************************************)
Building == nbuilds' = nbuilds + 1
DocFilesMissing == \E k \in DOMAIN DocChunks : DocChunks[k].filename \notin DOMAIN chunk_files

C22_BuildFinalMixOnlyReads ==
    [][Building =>
        /\ project_json' = project_json
        /\ chunk_files' = chunk_files
        /\ archive_files' = archive_files
        /\ DocFilesMissing => outcome' = "FileNotFoundError" /\ final_mix' = final_mix
        /\ (project_json # <<>> /\ ~DocFilesMissing) =>
                /\ outcome' = "ok"
                /\ final_mix' # <<>>
                /\ Ascending(DocChunks)
                /\ final_mix'[1].parts =
                        [k \in DOMAIN DocChunks |-> chunk_files[DocChunks[k].filename].tag]
                /\ final_mix'[1].len =
                        StitchedLen([k \in DOMAIN DocChunks |->
                                        chunk_files[DocChunks[k].filename].len],
                                    Len(DocChunks), PyRound(DocSampleRate * DocCrossfade, 1000))
       ]_vars

\* A build has failed on a project whose second chunk lost its file in a
\* failed replacement; the mix of an earlier build, made of the two chunks
\* as generated, is still there.
C22_Witness ==
    /\ pc = "idle"
    /\ outcome = "FileNotFoundError"
    /\ nbuilds = 2
    /\ aborted[2] = 1
    /\ DOMAIN chunk_files = {1}
    /\ Len(DocChunks) = 2
    /\ final_mix # <<>>
    /\ final_mix[1].parts = <<<<1, 1>>, <<2, 1>>>>
    /\ final_mix[1].len = 24000 + 24000 - 2400

(***************************************************************************)
(* The fade curves of the pairwise call, and equality within the floating  *)
(* tolerance (a thousandth).                                               *)
(***************************************************************************)
FadeOut == xf_fade[1].fade_out
FadeIn == xf_fade[1].fade_in
IsOne(x) == FadeScale - FadeScale \div 1000 <= x /\ x <= FadeScale + FadeScale \div 1000

(***************************************************************************)
(* C23 as stated: at every sample of the crossfade overlap the gains       *)
(* fade_out and fade_in, applied to the tail of the first waveform and the *)
(* head of the second, satisfy fade_out^2 + fade_in^2 = 1.                 *)
(***************************************************************************)
C23_FadeSquaresSumToOne ==
    xf_fade # <<>> =>
        \A i \in DOMAIN FadeOut :
            IsOne((FadeOut[i] * FadeOut[i]) \div FadeScale
                    + (FadeIn[i] * FadeIn[i]) \div FadeScale)

(***************************************************************************)
(* C23 amended: at every sample of the crossfade overlap the gains satisfy *)
(* fade_out + fade_in = 1 (they are cos^2 and sin^2 of the same angle),    *)
(* and there is one pair of gains for each sample of the clamped overlap.  *)
(***************************************************************************)
C23_FadeGainsSumToOne ==
    xf_fade # <<>> =>
        /\ Len(FadeOut) = Len(FadeIn)
        /\ Len(FadeOut) = xf_lens[1] + xf_lens[2] - xf_pair[1]
        /\ \A i \in DOMAIN FadeOut : IsOne(FadeOut[i] + FadeIn[i])

\* An overlap of three samples (four asked for, the second waveform has
\* three): the middle gains are 3/4 and 1/4.
C23_Witness ==
    /\ xf_fade # <<>>
    /\ xf_lens = <<4, 3>>
    /\ xf_samples = 4
    /\ Len(FadeOut) = 3
    /\ FadeOut[1] = FadeScale /\ FadeIn[1] = 0
    /\ FadeOut[2] \in 7490..7510
    /\ FadeIn[2] \in 2490..2510

(***************************************************************************)
(* C24: _archive_chunk never overwrites or destroys an archived version:   *)
(* every file the archive directory holds before the archive step is there *)
(* after it with the same content, also when versions of that stem were    *)
(* deleted or added from outside between the replacements.  The code       *)
(* breaks this: the version number is the count of the files of the stem   *)
(* plus one, and after a deletion that name may be taken.                  *)
(***************************************************************************)
C24_ArchiveNeverOverwrites ==
    [][pc = "archive" =>
            \A key \in DOMAIN archive_files :
                /\ key \in DOMAIN archive_files'
                /\ archive_files'[key] = archive_files[key]]_vars

(***************************************************************************)
(* C25: a replace_chunk call that is rejected as invalid configuration (a  *)
(* mode other than tts or import, or import mode without a file path)      *)
(* leaves the project directory as it was before the call: no step of such *)
(* a call changes the document, a chunk file or the archive, and the call  *)
(* ends with the configuration error.  The code breaks this: it archives   *)
(* the chunk's file before it looks at the mode.                           *)
(***************************************************************************)
InvalidConfiguration(c) ==
    \/ c.mode \notin {"tts", "import"}
    \/ c.mode = "import" /\ c.import_path = <<>>

C25_RejectedCallLeavesDirectory ==
    [][(pc \in {"archive", "render"} /\ InvalidConfiguration(call)) =>
            /\ DirectoryUnchanged
            /\ pc' = "idle" => outcome' = "ValueError"]_vars

(***************************************************************************)
(* C26: the steps of replace_chunk occur in the order archive the old      *)
(* file, render or import the new audio, reconcile the duration, write the *)
(* new audio file, recompute the timeline (free mode only), save the       *)
(* document.  Each step touches only what is its own; the document is      *)
(* written by the last step alone, once per call, when the chunk's file    *)
(* holds the new audio.                                                    *)
(***************************************************************************)
ReplaceOrder == <<"archive", "render", "reconcile", "write", "recalculate", "save">>
StepOf(position) == CHOOSE k \in DOMAIN ReplaceOrder : ReplaceOrder[k] = position
InReplace == \E k \in DOMAIN ReplaceOrder : ReplaceOrder[k] = pc
\* The chunk being replaced, in memory, before and after the step.
Target == project.chunks[ChunkPos]
TargetAfter == project'.chunks[ChunkPos]

C26_ReplaceStepsInOrder ==
    [][InReplace =>
        /\ pc' # pc
        /\ pc' # "idle" => pc' = ReplaceOrder[StepOf(pc) + 1]
        /\ pc' = "idle" => pc \in {"render", "save"}
        /\ (pc' = "idle" /\ outcome' = "ok") <=> pc = "save"
        /\ project_json' # project_json => pc = "save"
        /\ pc = "archive" =>
                /\ project' = project /\ audio' = audio /\ project_json' = project_json
                /\ Target.filename \notin DOMAIN chunk_files'
        /\ (pc = "render" /\ pc' # "idle") =>
                /\ DirectoryUnchanged
                /\ audio'.tag = CallTag
                /\ TargetAfter.duration_ms = Target.duration_ms
        /\ pc = "reconcile" =>
                /\ DirectoryUnchanged
                /\ TargetAfter.duration_ms \in {Target.duration_ms, new_duration'}
                /\ Starts(project'.chunks) = Starts(project.chunks)
        /\ pc = "write" =>
                /\ chunk_files' = WriteFile(chunk_files, Target.filename, audio)
                /\ project_json' = project_json /\ archive_files' = archive_files
                /\ project' = project
        /\ pc = "recalculate" =>
                /\ DirectoryUnchanged
                /\ call.timeline_mode # "free" => project' = project
                /\ call.timeline_mode = "free" =>
                        TimelineConsistent(project'.chunks, project.settings.crossfade_ms)
        /\ pc = "save" =>
                /\ chunk_files[Target.filename] = audio
                /\ audio.tag = <<call.index, Len(written[call.index])>>
                /\ project_json' = save_project(project)
                /\ chunk_files' = chunk_files /\ archive_files' = archive_files
                /\ replaced'[call.index] = replaced[call.index] + 1]_vars

\* A free import on the first of two chunks is about to save: the old audio
\* is archived, the file holds the imported audio, the chunk behind has
\* moved in memory and the document is still the one the call loaded.
C26_Witness ==
    /\ pc = "save"
    /\ call.mode = "import"
    /\ call.timeline_mode = "free"
    /\ call.index = 1
    /\ chunk_files[1] = audio
    /\ audio.tag = <<1, 2>>
    /\ archive_files[<<Stem(1), 1>>].tag = <<1, 1>>
    /\ Len(project.chunks) = 2
    /\ project.chunks[2].t_start_ms # DocChunks[2].t_start_ms
    /\ load_project(project_json[1]).chunks[1].duration_ms # project.chunks[1].duration_ms

(***************************************************************************)
(* C27: _archive_chunk changes no file and creates no archive file when    *)
(* the chunk's audio file is not in the chunk directory; when the file is  *)
(* there it is moved: the archive gains one file, which holds that audio,  *)
(* the other files stay, and the chunk directory is without the file from  *)
(* then until the new audio is written.                                    *)
(***************************************************************************)
C27_ArchiveMovesOrDoesNothing ==
    [][/\ pc = "archive" =>
            IF Target.filename \notin DOMAIN chunk_files
            THEN DirectoryUnchanged
            ELSE /\ DOMAIN chunk_files' = DOMAIN chunk_files \ {Target.filename}
                 /\ \A name \in DOMAIN chunk_files' : chunk_files'[name] = chunk_files[name]
                 /\ \A key \in DOMAIN archive_files :
                        key \in DOMAIN archive_files'
                            /\ archive_files'[key] = archive_files[key]
                 /\ \E key \in DOMAIN archive_files' \ DOMAIN archive_files :
                        /\ DOMAIN archive_files' = DOMAIN archive_files \cup {key}
                        /\ key[1] = Stem(Target.filename)
                        /\ archive_files'[key] = chunk_files[Target.filename]
                 /\ project_json' = project_json
       /\ pc \in {"render", "reconcile", "write"} => Target.filename \notin DOMAIN chunk_files
       /\ pc = "write" => Target.filename \in DOMAIN chunk_files']_vars

\* The archive step has done nothing: the second chunk lost its file to a
\* call that raised, and the call now at the render step found no file to
\* move; the archive holds the one version the first call moved there.
C27_Witness ==
    /\ pc = "render"
    /\ call.index = 2
    /\ aborted[2] = 1
    /\ replaced[2] = 0
    /\ DOMAIN chunk_files = {1}
    /\ DOMAIN archive_files = {<<Stem(2), 1>>}
    /\ archive_files[<<Stem(2), 1>>] = written[2][1]

(***************************************************************************)
(* The timeline against the mix: the timeline was recalculated and the     *)
(* files were stitched.  A start of t ms is the sample t * sample_rate /   *)
(* 1000; the sample counts of the harness are whole milliseconds.          *)
(***************************************************************************)
TimelineAndMixDone == Len(tl_history) >= 1 /\ xf_stitched # <<>>
StartsMatchOffsets ==
    /\ Len(xf_offsets[1]) = Len(tl_chunks)
    /\ \A k \in DOMAIN tl_chunks :
            xf_offsets[1][k] * 1000 = tl_chunks[k].t_start_ms * xf_sample_rate
    /\ tl_chunks # <<>> =>
            xf_stitched[1] * 1000 =
                (tl_chunks[Len(tl_chunks)].t_start_ms + tl_chunks[Len(tl_chunks)].duration_ms)
                    * xf_sample_rate

(***************************************************************************)
(* C28 as stated: after recalculate_timeline each chunk's t_start_ms is    *)
(* the offset at which the chunk's audio begins in the mix stitch_chunks   *)
(* makes with the same crossfade, and the mix is as long as the last       *)
(* chunk's t_start_ms + duration_ms, for every list of chunk durations,    *)
(* chunks shorter than the crossfade included.                             *)
(***************************************************************************)
C28_TimelineMatchesMix == TimelineAndMixDone => StartsMatchOffsets

(***************************************************************************)
(* C28 amended: the same for every list of chunk durations (whole          *)
(* milliseconds of audio) in which no chunk is shorter than the crossfade; *)
(* around a chunk shorter than the crossfade the mix overlaps by that      *)
(* chunk's length while the timeline subtracts the whole crossfade.        *)
(***************************************************************************)
NoChunkShorterThanCrossfade ==
    \A k \in DOMAIN tl_chunks : tl_chunks[k].duration_ms >= tl_crossfade

C28_TimelineMatchesMixOfLongChunks ==
    (TimelineAndMixDone /\ NoChunkShorterThanCrossfade) => StartsMatchOffsets

\* Chunks of 1000, 50 and 1000 ms with a crossfade of 40 ms: starts 0, 960
\* and 970 ms, a mix of 1970 ms.
C28_Witness ==
    /\ TimelineAndMixDone
    /\ xf_lens = <<24000, 1200, 24000>>
    /\ tl_crossfade = 40
    /\ Starts(tl_chunks) = <<0, 960, 970>>
    /\ xf_offsets = <<<<0, 23040, 23280>>>>
    /\ xf_stitched = <<47280>>

(***************************************************************************)
(* C29: on a tts replace_chunk without overrides the renderer runs with    *)
(* the parameters stored for the chunk by its previous render (earlier     *)
(* per-chunk overrides included), and the chunk's stored params are the    *)
(* same after the render as before it.                                     *)
(***************************************************************************)
TtsRenderWithoutOverrides ==
    /\ pc = "render" /\ pc' = "reconcile"
    /\ call.mode = "tts"
    /\ call.overrides = EmptyDict

C29_TtsReplaceEchoesStoredParams ==
    [][TtsRenderWithoutOverrides =>
        /\ renderer_params' # <<>>
        /\ \A k \in DOMAIN renderer_params'[1] :
                k \in DOMAIN Target.params /\ renderer_params'[1][k] = Target.params[k]
        /\ TargetAfter.params = Target.params]_vars

(***************************************************************************)
(* C30: the start times generate_project assigns while producing the       *)
(* chunks are the start times recalculate_timeline computes on the         *)
(* finished project: recalculating right after generation changes no       *)
(* t_start_ms.                                                             *)
(***************************************************************************)
Generated == Returned /\ ncalls = 0
GeneratedProject == load_project(project_json[1])

C30_GenerateStartsAreRecalculated ==
    Generated =>
        Starts(recalculate_timeline(GeneratedProject.chunks,
                                    GeneratedProject.settings.crossfade_ms))
            = Starts(GeneratedProject.chunks)

\* Three chunks generated with a crossfade of 100 ms, the first one empty:
\* the cursor is clamped at 0 behind it and moves on behind the second.
C30_Witness ==
    /\ Generated
    /\ Len(GeneratedProject.chunks) = 3
    /\ GeneratedProject.settings.crossfade_ms = 100
    /\ GeneratedProject.chunks[1].duration_ms = 0
    /\ Starts(GeneratedProject.chunks) = <<0, 0, 900>>

\* The seeds of a chunk list; the seed a replace_chunk call renders with.
Seeds(chunks) == [k \in DOMAIN chunks |-> chunks[k].seed]
SeedOfCall == IF call.seed # <<>> THEN call.seed[1] ELSE Target.seed
OtherSeedsKept ==
    \A k \in DOMAIN project.chunks :
        k # ChunkPos => project'.chunks[k].seed = project.chunks[k].seed

SeedSteps ==
        /\ (pc = "generate" /\ gen_todo' # gen_todo /\ project_json' # project_json) =>
            LET k == Len(project.chunks) + 1
                saved == load_project(project_json'[1])
            IN  /\ Head(gen_todo).idx = k
                /\ DOMAIN chunk_files' = 1..k
                /\ written' = [written EXCEPT ![k] = <<chunk_files'[k]>>]
                /\ Seeds(saved.chunks) =
                        [j \in 1..k |-> saved.settings.global_seed + j - 1]
        /\ (pc = "render" /\ pc' = "reconcile" /\ call.mode = "tts") =>
                /\ renderer_seed' = <<SeedOfCall>>
                /\ TargetAfter.seed = SeedOfCall
                /\ OtherSeedsKept
        /\ (pc = "render" /\ pc' = "reconcile" /\ call.mode = "import") =>
                /\ renderer_seed' = <<>>
                /\ TargetAfter.seed = SeedOfCall
                /\ OtherSeedsKept
        /\ (InReplace /\ pc # "render" /\ pc' # "idle") =>
                Seeds(project'.chunks) = Seeds(project.chunks)
        /\ pc = "save" =>
                Seeds(load_project(project_json'[1]).chunks) = Seeds(project.chunks)

(***************************************************************************)
(* C31: generate_project renders the chunks in index order and gives chunk *)
(* k the seed global_seed + k - 1; a tts replace_chunk renders with the    *)
(* seed override when one is given and with the chunk's stored seed        *)
(* otherwise, and that seed is the chunk's seed afterwards; an import      *)
(* changes the stored seed only when an override is given; no step of a    *)
(* replacement changes another chunk's seed, and the saved document holds  *)
(* the seeds of the call.                                                  *)
(***************************************************************************)
C31_SeedsDerivedRenderedAndStored == [][SeedSteps]_vars

\* Chunk 1 of a generated project (seed 42) was replaced with the seed 7; a
\* second tts replacement without a seed has rendered with 7 and is about
\* to save, the chunk behind still holding the seed 43.
C31_Witness ==
    /\ pc = "save"
    /\ ncalls = 2
    /\ call.mode = "tts"
    /\ call.seed = <<>>
    /\ call.index = 1
    /\ renderer_seed = <<7>>
    /\ Seeds(project.chunks) = <<7, 43>>
    /\ Seeds(DocChunks) = <<7, 43>>
    /\ project.settings.global_seed = 42

(***************************************************************************)
(* The offsets at which a text occurs in the source, the Python slice      *)
(* source[start:end], and the cursor _chunk_script holds when it places    *)
(* the k-th span: 0, then the char_end of the span before.                 *)
(***************************************************************************)
Occurrences(source, text) ==
    {i \in 0..Len(source) :
        /\ i + Len(text) <= Len(source)
        /\ \A m \in 1..Len(text) : source[i + m] = text[m]}
Slice(source, start, end) ==
    [m \in 1..(Min(end, Len(source)) - Min(start, Len(source))) |-> source[start + m]]
CursorAt(k) == IF k = 1 THEN 0 ELSE Spans[k - 1].char_end

(***************************************************************************)
(* C32: every span of _chunk_script is as long as its text; it lies at the *)
(* first occurrence of the text at or after the cursor when there is one,  *)
(* otherwise at the first occurrence anywhere in the source, otherwise at  *)
(* the cursor; whenever the text occurs in the source the span's slice of  *)
(* the source is the text; the cursor of the next span is the span's       *)
(* char_end.                                                               *)
(***************************************************************************)
C32_SpansPlacedByCursorThenAnywhere ==
    pc = "generate" =>
        \A k \in DOMAIN Spans :
            LET span == Spans[k]
                anywhere == Occurrences(seg_script, span.text)
                after == {i \in anywhere : i >= CursorAt(k)}
            IN  /\ span.char_end - span.char_start = Len(span.text)
                /\ after # {} =>
                        span.char_start \in after /\ \A i \in after : span.char_start <= i
                /\ (after = {} /\ anywhere # {}) =>
                        span.char_start \in anywhere /\ \A i \in anywhere : span.char_start <= i
                /\ anywhere = {} => span.char_start = CursorAt(k)
                /\ anywhere # {} =>
                        Slice(seg_script, span.char_start, span.char_end) = span.text

\* The script "a a  b" split into "a" and "a b": the first span lies at the
\* first occurrence (0, 1); "a b" occurs nowhere in the script and lies at
\* the cursor, (1, 4), over text that is not its own.
C32_Witness ==
    /\ pc = "generate"
    /\ seg_script = <<"a", " ", "a", " ", " ", "b">>
    /\ Len(Spans) = 2
    /\ Spans[1] = [text |-> <<"a">>, char_start |-> 0, char_end |-> 1]
    /\ Spans[2] = [text |-> <<"a", " ", "b">>, char_start |-> 1, char_end |-> 4]
    /\ Occurrences(seg_script, Spans[2].text) = {}
    /\ Slice(seg_script, 1, 4) # Spans[2].text

====
